---- MODULE Spec2Model ----
(***************************************************************************)
(* Monorepo fanout automation (.github/scripts): the naming convention,    *)
(* the subtree matcher, the fanout driver, the check reflector, the label  *)
(* sync and the category-label diff, each modelled from its Python source. *)
(*                                                                         *)
(* Strings are sequences of one-character strings, so that formatting,     *)
(* splitting and prefix tests are computed, not assumed.                   *)
(***************************************************************************)
EXTENDS Integers, Sequences, FiniteSets, TLC

VARIABLES
    \* ---- naming: one (pr, name) pair and the branch each script derives
    nm_pr, nm_name, nm_derived,
    \* ---- naming: a second pair, and compute_branch_name / fanout's template on both
    inj_pr2, inj_name2, inj_b1, inj_b2,
    \* ---- subtree matcher: the changed files, the configuration, the result
    mt_files, mt_config, mt_matched, mt_pc,
    \* ---- fanout driver: the monorepo PR, the subtrees given to the runs, each
    \*      run's position, the sub-repositories (pushed branches, pull requests)
    \*      and the PR-create calls issued so far
    fo_pr, fo_subtrees, fo_run, fo_branches, fo_prs, fo_calls,
    \* ---- upsert_check_run: the check runs GitHub holds for the monorepo and
    \*      each caller's position in upsert_check_run
    up_checks, up_call,
    \* ---- pr_reflect_checks: the configuration, the mirrored pull requests
    \*      and their check runs, the monorepo pull request and its check
    \*      runs, and the run's position
    rf_config, rf_mirrors, rf_monorepo, rf_run,
    \* ---- pr_fanout_sync_labels: the labels of the monorepo pull request, the
    \*      mirrored pull requests (vocabulary and labels), their labels when
    \*      the run started, the run's position and the gh pr edit commands run
    lb_source, lb_mirrors, lb_start, lb_run, lb_cmds,
    \* ---- pr_category_label: the files and labels of the pull request, the
    \*      run's position and what it wrote to GITHUB_OUTPUT
    ct_files, ct_existing, ct_run, ct_output,
    \* ---- pr_detect_changed_subtrees: the files of the pull request, the
    \*      configuration, the run's position and what it wrote to GITHUB_OUTPUT
    dt_files, dt_config, dt_run, dt_output,
    \* ---- pr_close_fanouts: the configuration, the sub-repositories (pull
    \*      requests and branches), the run's position and the requests it sent
    cl_config, cl_repos, cl_run, cl_calls,
    \* ---- start of a script: the script, the configuration file and the run
    cf_script, cf_file, cf_run,
    \* ---- the reflector's loop body on one upstream check: the check, the
    \*      synthetic check the monorepo has for it, and what the body computed
    rl_check, rl_existing, rl_result,
    \* ---- _get_json on one list endpoint: the server's answer to each page
    \*      request, the items the endpoint holds, and what the caller received
    pg_responses, pg_items, pg_result,
    \* ---- detection feeding fanout: the files of the pull request, the
    \*      configuration, and the run from find_matched_subtrees to get_subtree_info
    pp_files, pp_config, pp_run,
    \* ---- synthetic check names: two (entry, upstream check name) pairs and
    \*      the name the reflector composes for each
    sy_pairs, sy_names

namingVars == <<nm_pr, nm_name, nm_derived>>
injVars    == <<inj_pr2, inj_name2, inj_b1, inj_b2>>
matchVars  == <<mt_files, mt_config, mt_matched, mt_pc>>
fanoutVars == <<fo_pr, fo_subtrees, fo_run, fo_branches, fo_prs, fo_calls>>
upsertVars == <<up_checks, up_call>>
reflectVars == <<rf_config, rf_mirrors, rf_monorepo, rf_run>>
labelVars  == <<lb_source, lb_mirrors, lb_start, lb_run, lb_cmds>>
categoryVars == <<ct_files, ct_existing, ct_run, ct_output>>
detectVars   == <<dt_files, dt_config, dt_run, dt_output>>
closeVars    == <<cl_config, cl_repos, cl_run, cl_calls>>
configVars   == <<cf_script, cf_file, cf_run>>
loopVars     == <<rl_check, rl_existing, rl_result>>
pagesVars    == <<pg_responses, pg_items, pg_result>>
pipeVars     == <<pp_files, pp_config, pp_run>>
synthVars    == <<sy_pairs, sy_names>>
vars       == <<namingVars, injVars, matchVars, fanoutVars, upsertVars,
                reflectVars, labelVars, categoryVars, detectVars,
                closeVars, configVars, loopVars, pagesVars,
                  pipeVars, synthVars>>

\* what the actions of one part leave alone: the variables of the other parts
notNaming    == <<injVars, matchVars, fanoutVars, upsertVars, reflectVars,
                  labelVars, categoryVars, detectVars, closeVars, configVars,
                  loopVars, pagesVars,
                  pipeVars, synthVars>>
notInjective == <<matchVars, fanoutVars, upsertVars, reflectVars, labelVars,
                  categoryVars, detectVars, closeVars, configVars, loopVars, pagesVars,
                  pipeVars, synthVars>>
notMatch     == <<namingVars, injVars, fanoutVars, upsertVars, reflectVars,
                  labelVars, categoryVars, detectVars, closeVars, configVars,
                  loopVars, pagesVars,
                  pipeVars, synthVars>>
notFanout    == <<namingVars, injVars, matchVars, upsertVars, reflectVars,
                  labelVars, categoryVars, detectVars, closeVars, configVars,
                  loopVars, pagesVars,
                  pipeVars, synthVars>>
notUpsert    == <<namingVars, injVars, matchVars, fanoutVars, reflectVars,
                  labelVars, categoryVars, detectVars, closeVars, configVars,
                  loopVars, pagesVars,
                  pipeVars, synthVars>>
notReflect   == <<namingVars, injVars, matchVars, fanoutVars, upsertVars,
                  labelVars, categoryVars, detectVars, closeVars, configVars,
                  loopVars, pagesVars,
                  pipeVars, synthVars>>
notLabels    == <<namingVars, injVars, matchVars, fanoutVars, upsertVars,
                  reflectVars, categoryVars, detectVars, closeVars,
                  configVars, loopVars, pagesVars,
                  pipeVars, synthVars>>
notCategory  == <<namingVars, injVars, matchVars, fanoutVars, upsertVars,
                  reflectVars, labelVars, detectVars, closeVars, configVars,
                  loopVars, pagesVars,
                  pipeVars, synthVars>>
notDetect    == <<namingVars, injVars, matchVars, fanoutVars, upsertVars,
                  reflectVars, labelVars, categoryVars, closeVars,
                  configVars, loopVars, pagesVars,
                  pipeVars, synthVars>>
notClose     == <<namingVars, injVars, matchVars, fanoutVars, upsertVars,
                  reflectVars, labelVars, categoryVars, detectVars,
                  configVars, loopVars, pagesVars,
                  pipeVars, synthVars>>
notConfig    == <<namingVars, injVars, matchVars, fanoutVars, upsertVars,
                  reflectVars, labelVars, categoryVars, detectVars,
                  closeVars, loopVars, pagesVars,
                  pipeVars, synthVars>>
notLoop      == <<namingVars, injVars, matchVars, fanoutVars, upsertVars,
                  reflectVars, labelVars, categoryVars, detectVars,
                  closeVars, configVars, pagesVars, pipeVars, synthVars>>

notPages     == <<namingVars, injVars, matchVars, fanoutVars, upsertVars,
                  reflectVars, labelVars, categoryVars, detectVars,
                  closeVars, configVars, loopVars, pipeVars, synthVars>>
notPipe      == <<namingVars, injVars, matchVars, fanoutVars, upsertVars,
                  reflectVars, labelVars, categoryVars, detectVars,
                  closeVars, configVars, loopVars, pagesVars, synthVars>>
notSynth     == <<namingVars, injVars, matchVars, fanoutVars, upsertVars,
                  reflectVars, labelVars, categoryVars, detectVars,
                  closeVars, configVars, loopVars, pagesVars, pipeVars>>

None       == "None"    \* Python's None
NotDerived == <<>>      \* no branch name derived yet (a derived name is never empty)

(***************************************************************************)
(* Bounds                                                                  *)
(***************************************************************************)
MaxPr      == 11        \* monorepo PR numbers 1..MaxPr (two digits are reached)
MaxNameLen == 2         \* subtree names of 1..MaxNameLen characters
MaxPathLen == 4         \* changed-file paths of 1..MaxPathLen characters

PRs          == 1..MaxPr
NameAlphabet == {"x", "1", "-", "/"}
\* every non-empty string over NameAlphabet of at most n characters
StringsUpTo(alphabet, n) == UNION {[1..k -> alphabet] : k \in 1..n}
Names        == StringsUpTo(NameAlphabet, MaxNameLen)

(***************************************************************************)
(* String helpers                                                          *)
(***************************************************************************)
Digit == <<"0", "1", "2", "3", "4", "5", "6", "7", "8", "9">>

\* str(int) as an f-string renders it: decimal, most significant digit first
RECURSIVE IntToStr(_)
IntToStr(n) ==
    IF n < 10 THEN <<Digit[n + 1]>>
    ELSE IntToStr(n \div 10) \o <<Digit[(n % 10) + 1]>>

\* code points of the characters the model's strings are made of
Ord(c) ==
    CASE c = " " -> 32 [] c = "\"" -> 34 [] c = "," -> 44 [] c = "-" -> 45
      [] c = "." -> 46 [] c = "/" -> 47 [] c = "1" -> 49 [] c = ":" -> 58
      [] c = "a" -> 97 [] c = "b" -> 98 [] c = "c" -> 99 [] c = "d" -> 100
      [] c = "e" -> 101 [] c = "f" -> 102 [] c = "g" -> 103 [] c = "h" -> 104
      [] c = "j" -> 106 [] c = "n" -> 110 [] c = "o" -> 111 [] c = "p" -> 112
      [] c = "r" -> 114 [] c = "s" -> 115 [] c = "t" -> 116 [] c = "u" -> 117
      [] c = "x" -> 120
      [] OTHER -> 0

\* s < t as Python compares str: by code point, a proper prefix first
RECURSIVE StrLess(_, _)
StrLess(s, t) ==
    IF t = <<>> THEN FALSE
    ELSE IF s = <<>> THEN TRUE
    ELSE IF Head(s) # Head(t) THEN Ord(Head(s)) < Ord(Head(t))
    ELSE StrLess(Tail(s), Tail(t))

StrLeq(s, t) == s = t \/ StrLess(s, t)

\* sep in s
Contains(s, sep) == \E i \in 1..Len(s) : s[i] = sep

\* s.find(sep), 1-based; only used when sep is in s
IndexOf(s, sep) == CHOOSE i \in 1..Len(s) : s[i] = sep /\ \A j \in 1..(i - 1) : s[j] # sep

\* s.split(sep, maxsplit) for a one-character sep; maxsplit = -1 splits at every sep
RECURSIVE SplitMax(_, _, _)
SplitMax(s, sep, maxsplit) ==
    IF maxsplit = 0 \/ ~Contains(s, sep) THEN <<s>>
    ELSE LET i == IndexOf(s, sep)
         IN  <<SubSeq(s, 1, i - 1)>> \o SplitMax(SubSeq(s, i + 1, Len(s)), sep, maxsplit - 1)

\* s.split(sep)
Split(s, sep) == SplitMax(s, sep, -1)

\* sep.join(parts)
RECURSIVE Join(_, _)
Join(sep, parts) ==
    IF parts = <<>> THEN <<>>
    ELSE IF Len(parts) = 1 THEN parts[1]
    ELSE parts[1] \o <<sep>> \o Join(sep, Tail(parts))

\* seq[:n]
Take(seq, n) == SubSeq(seq, 1, IF n < Len(seq) THEN n ELSE Len(seq))

\* the elements of a list
Range(seq) == {seq[i] : i \in 1..Len(seq)}

MonorepoPrSlash == <<"m","o","n","o","r","e","p","o","-","p","r","/">>
MonorepoPrDash  == <<"m","o","n","o","r","e","p","o","-","p","r","-">>

(***************************************************************************)
(* Naming convention                                                       *)
(***************************************************************************)
\* a derivation that drops the separator between the number and the name
compute_branch_name_nosep(pr_number, name) ==
    MonorepoPrSlash \o IntToStr(pr_number) \o name

\* FanoutNaming.compute_branch_name: f"monorepo-pr/{pr_number}/{name}"
compute_branch_name(pr_number, name) ==
    MonorepoPrSlash \o IntToStr(pr_number) \o <<"/">> \o name

\* pr_fanout.main: branch = f"monorepo-pr-{args.pr}-{entry.name}"
FanoutBranch(pr, name) ==
    MonorepoPrDash \o IntToStr(pr) \o <<"-">> \o name

\* pr_reflect_checks.main: branch = FanoutNaming.compute_branch_name(args.pr, entry.name)
ReflectBranch(pr, name) == compute_branch_name(pr, name)

\* pr_fanout_sync_labels.sync_labels: branch = f"monorepo-pr-{pr_number}-{entry.name}"
SyncLabelsBranch(pr, name) ==
    MonorepoPrDash \o IntToStr(pr) \o <<"-">> \o name

\* pr_close_fanouts.main: branch = f"monorepo-pr-{args.pr}-{entry.name}"
CloseBranch(pr, name) ==
    MonorepoPrDash \o IntToStr(pr) \o <<"-">> \o name

Scripts == {"pr_fanout", "pr_reflect_checks", "pr_fanout_sync_labels", "pr_close_fanouts"}

NamingIdle == /\ nm_pr = 1
              /\ nm_name = <<"1">>
              /\ nm_derived = [s \in Scripts |-> NotDerived]
NoDerivations == [slash |-> NotDerived, dash |-> NotDerived]
InjIdle    == /\ inj_pr2 = 0
              /\ inj_name2 = <<>>
              /\ inj_b1 = NoDerivations
              /\ inj_b2 = NoDerivations

MatchIdle  == /\ mt_files = <<>>
              /\ mt_config = <<>>
              /\ mt_matched = <<>>
              /\ mt_pc = "idle"

FanoutIdle == /\ fo_pr = 1
              /\ fo_subtrees = <<>>
              /\ fo_run = <<>>
              /\ fo_branches = {}
              /\ fo_prs = <<>>
              /\ fo_calls = {}

UpsertIdle == /\ up_checks = <<>>
              /\ up_call = <<>>

\* every part but the one a specification is about is idle
ReflectIdle == /\ rf_config = <<>>
               /\ rf_mirrors = <<>>
               /\ rf_monorepo = <<>>
               /\ rf_run = <<>>

LabelsIdle == /\ lb_source = {}
              /\ lb_mirrors = <<>>
              /\ lb_start = <<>>
              /\ lb_run = <<>>
              /\ lb_cmds = <<>>

CategoryIdle == /\ ct_files = <<>>
                /\ ct_existing = {}
                /\ ct_run = <<>>
                /\ ct_output = <<>>

DetectIdle == /\ dt_files = <<>>
              /\ dt_config = <<>>
              /\ dt_run = <<>>
              /\ dt_output = <<>>

CloseIdle == /\ cl_config = <<>>
             /\ cl_repos = <<>>
             /\ cl_run = <<>>
             /\ cl_calls = <<>>

ConfigIdle == /\ cf_script = ""
              /\ cf_file = <<>>
              /\ cf_run = <<>>

LoopIdle == /\ rl_check = <<>>
            /\ rl_existing = <<>>
            /\ rl_result = <<>>

PagesIdle == /\ pg_responses = <<>>
             /\ pg_items = <<>>
             /\ pg_result = <<>>

PipeIdle == /\ pp_files = <<>>
            /\ pp_config = <<>>
            /\ pp_run = <<>>

SynthIdle == /\ sy_pairs = <<>>
             /\ sy_names = <<>>

RestIdle(part) ==
    /\ part = "naming" \/ (NamingIdle /\ InjIdle)
    /\ part = "match" \/ MatchIdle
    /\ part = "fanout" \/ FanoutIdle
    /\ part = "upsert" \/ UpsertIdle
    /\ part = "reflect" \/ ReflectIdle
    /\ part = "labels" \/ LabelsIdle
    /\ part = "category" \/ CategoryIdle
    /\ part = "detect" \/ DetectIdle
    /\ part = "close" \/ CloseIdle
    /\ part = "config" \/ ConfigIdle
    /\ part = "loop" \/ LoopIdle
    /\ part = "pages" \/ PagesIdle
    /\ part = "pipe" \/ PipeIdle
    /\ part = "synth" \/ SynthIdle

(***************************************************************************)
(* SpecNaming: the four scripts, run for one monorepo PR and one subtree,  *)
(* each derive the head branch of the mirrored PR.                         *)
(***************************************************************************)
InitNaming ==
    /\ nm_pr \in PRs
    /\ nm_name \in Names
    /\ nm_derived = [s \in Scripts |-> NotDerived]
    /\ InjIdle
    /\ RestIdle("naming")

DeriveFanout ==
    /\ nm_derived["pr_fanout"] = NotDerived
    /\ nm_derived' = [nm_derived EXCEPT !["pr_fanout"] = FanoutBranch(nm_pr, nm_name)]
    /\ UNCHANGED <<nm_pr, nm_name, notNaming>>

DeriveReflect ==
    /\ nm_derived["pr_reflect_checks"] = NotDerived
    /\ nm_derived' = [nm_derived EXCEPT !["pr_reflect_checks"] = ReflectBranch(nm_pr, nm_name)]
    /\ UNCHANGED <<nm_pr, nm_name, notNaming>>

DeriveSyncLabels ==
    /\ nm_derived["pr_fanout_sync_labels"] = NotDerived
    /\ nm_derived' = [nm_derived EXCEPT !["pr_fanout_sync_labels"] = SyncLabelsBranch(nm_pr, nm_name)]
    /\ UNCHANGED <<nm_pr, nm_name, notNaming>>

DeriveClose ==
    /\ nm_derived["pr_close_fanouts"] = NotDerived
    /\ nm_derived' = [nm_derived EXCEPT !["pr_close_fanouts"] = CloseBranch(nm_pr, nm_name)]
    /\ UNCHANGED <<nm_pr, nm_name, notNaming>>

NextNaming == DeriveFanout \/ DeriveReflect \/ DeriveSyncLabels \/ DeriveClose

SpecNaming == InitNaming /\ [][NextNaming]_vars

\* C1: for every PR number and subtree name the fanout driver, the check
\* reflector, the label sync and the close script derive the same branch name,
\* so the mirrored PR that fanout creates is found by the other three.
C1_AllScriptsDeriveSameBranch ==
    \A s, t \in Scripts :
        (nm_derived[s] # NotDerived /\ nm_derived[t] # NotDerived) => nm_derived[s] = nm_derived[t]

(***************************************************************************)
(* SpecInjective: the derivation applied to two (pr, name) pairs.          *)
(***************************************************************************)
InitInjective ==
    /\ nm_pr \in PRs
    /\ nm_name \in Names
    /\ nm_derived = [s \in Scripts |-> NotDerived]
    /\ InjIdle
    /\ RestIdle("naming")

\* both templates applied to one pair
Derivations(pr, name) ==
    [slash |-> compute_branch_name(pr, name), dash |-> FanoutBranch(pr, name)]

ComputeFirst ==
    /\ inj_b1 = NoDerivations
    /\ inj_b1' = Derivations(nm_pr, nm_name)
    /\ UNCHANGED <<namingVars, inj_pr2, inj_name2, inj_b2, notInjective>>

ComputeSecond ==
    /\ inj_b1 # NoDerivations
    /\ inj_b2 = NoDerivations
    /\ \E pr \in PRs, name \in Names :
        /\ inj_pr2' = pr
        /\ inj_name2' = name
        /\ inj_b2' = Derivations(pr, name)
    /\ UNCHANGED <<namingVars, inj_b1, notInjective>>

NextInjective == ComputeFirst \/ ComputeSecond

SpecInjective == InitInjective /\ [][NextInjective]_vars

\* C2: the branch-name derivation is injective and deterministic: two distinct
\* (pr, name) pairs get different branch names, the same pair the same name.
C2_BranchNameInjective ==
    (inj_b1 # NoDerivations /\ inj_b2 # NoDerivations) =>
        /\ (<<nm_pr, nm_name>> # <<inj_pr2, inj_name2>>) =>
              (inj_b1.slash # inj_b2.slash /\ inj_b1.dash # inj_b2.dash)
        /\ (<<nm_pr, nm_name>> = <<inj_pr2, inj_name2>>) => inj_b1 = inj_b2

\* two distinct pairs that share the number's first digit and whose names
\* start with a digit and contain the separators have both been derived
C2_Witness ==
    /\ inj_b1 # NoDerivations /\ inj_b2 # NoDerivations
    /\ nm_pr = 1 /\ nm_name = <<"1", "/">>
    /\ inj_pr2 = 11 /\ inj_name2 = <<"/">>

(***************************************************************************)
(* Subtree matcher (pr_detect_changed_subtrees.py)                         *)
(***************************************************************************)
\* RepoEntry of repo_config_model: {category, name, url, branch}
RepoEntry(category, name) ==
    [category |-> category, name |-> name,
     url |-> <<"x", "/">> \o name, branch |-> "develop"]

Categories   == {<<"a">>, <<"b">>}
SubtreeNames == {<<"a">>, <<"b">>}
Entries      == {RepoEntry(c, n) : c \in Categories, n \in SubtreeNames}

\* a configuration: a list of distinct entries, here at most two of them
Configs ==
    {<<>>} \cup {<<e>> : e \in Entries}
           \cup {c \in {<<e, f>> : e \in Entries, f \in Entries} : c[1] # c[2]}

PathAlphabet == {"a", "b", "/"}
Paths        == StringsUpTo(PathAlphabet, MaxPathLen)
\* a second changed file: one directly under a subtree directory
SecondPaths   == {c \o <<"/">> \o n : c \in Categories, n \in SubtreeNames}
\* a third changed file: one at the top level of the monorepo (a README.md)
TopLevelFiles == {<<"a">>}
\* a pull request's changed files: here at most three paths
FileLists ==
    {<<>>} \cup {<<p>> : p \in Paths}
           \cup {<<p, q>> : p \in Paths, q \in SecondPaths}
           \cup {<<p, q, r>> : p \in Paths, q \in SecondPaths, r \in TopLevelFiles}

\* get_valid_prefixes: {f"{entry.category}/{entry.name}" for entry in config}
get_valid_prefixes(config) ==
    {e.category \o <<"/">> \o e.name : e \in Range(config)}

\* sorted(prefix.split("/", 1)[part] for prefix in S), part counted from 1:
\* one key per element of S, in ascending order
RECURSIVE SortedParts(_, _)
SortedParts(S, part) ==
    IF S = {} THEN <<>>
    ELSE LET key(x) == SplitMax(x, "/", 1)[part]
             x == CHOOSE x \in S : \A y \in S : StrLeq(key(x), key(y))
         IN  <<key(x)>> \o SortedParts(S \ {x}, part)

\* a matcher that returns the category part of each matched prefix
find_matched_subtrees_category(changed_files, valid_prefixes) ==
    LET changed_subtrees ==
            {Join("/", Take(SplitMax(path, "/", 2), 2)) :
                path \in {f \in Range(changed_files) : Len(Split(f, "/")) >= 2}}
    IN  SortedParts(changed_subtrees \cap valid_prefixes, 1)

\* find_matched_subtrees
find_matched_subtrees(changed_files, valid_prefixes) ==
    LET changed_subtrees ==
            {Join("/", Take(SplitMax(path, "/", 2), 2)) :
                path \in {f \in Range(changed_files) : Len(Split(f, "/")) >= 2}}
    IN  SortedParts(changed_subtrees \cap valid_prefixes, 2)

(***************************************************************************)
(* SpecMatch: find_matched_subtrees on a changed-file list and a config.   *)
(***************************************************************************)
InitMatch ==
    /\ mt_files \in FileLists
    /\ mt_config \in Configs
    /\ mt_matched = <<>>
    /\ mt_pc = "start"
    /\ RestIdle("match")

\* main: valid_prefixes = get_valid_prefixes(config);
\*       matched_subtrees = find_matched_subtrees(changed_files, valid_prefixes)
DetectSubtrees ==
    /\ mt_pc = "start"
    /\ mt_matched' = find_matched_subtrees(mt_files, get_valid_prefixes(mt_config))
    /\ mt_pc' = "matched"
    /\ UNCHANGED <<mt_files, mt_config, notMatch>>

NextMatch == DetectSubtrees

SpecMatch == InitMatch /\ [][NextMatch]_vars

\* the names expected: n such that some changed path has at least
\* two segments and its first two segments are c and n with c/n configured
ExpectedSubtreeNames(files, config) ==
    {e.name : e \in {e \in Range(config) :
        \E i \in 1..Len(files) :
            LET segments == Split(files[i], "/")
            IN  /\ Len(segments) >= 2
                /\ segments[1] = e.category
                /\ segments[2] = e.name}}

\* C3: find_matched_subtrees returns exactly the names n for which some changed
\* path has at least two segments whose first two, c/n, are a valid prefix;
\* shorter paths and unconfigured prefixes contribute nothing.
C3_MatchedExactlyConfiguredPrefixes ==
    mt_pc = "matched" =>
        Range(mt_matched) = ExpectedSubtreeNames(mt_files, mt_config)

\* the spec's example, with a for projects and rocBLAS, b for shared and
\* rocSPARSE: a/a/b and b/b/a changed, prefixes {a/a, b/b}, result [a, b]
C3_Witness ==
    /\ mt_pc = "matched"
    /\ mt_files = << <<"a", "/", "a", "/">>, <<"b", "/", "b">> >>
    /\ mt_config = <<RepoEntry(<<"a">>, <<"a">>), RepoEntry(<<"b">>, <<"b">>)>>
    /\ mt_matched = << <<"a">>, <<"b">> >>

(***************************************************************************)
(* Fanout driver (pr_fanout.py) over GitHubCLIClient                       *)
(***************************************************************************)
\* two invocations of pr_fanout.py for the same monorepo pull request
Runs == {1, 2}

MonorepoRepo == <<"ROCm/rocm-libraries">>       \* --repo

\* the subtrees a run is given (get_subtree_info's result)
FanoutSubtreeLists ==
    { <<RepoEntry(<<"a">>, <<"a">>)>>,
      <<RepoEntry(<<"a">>, <<"a">>), RepoEntry(<<"a">>, <<"b">>)>> }

\* main: pr_title = f"[DO NOT MERGE] [Fanout] [Monorepo] PR #{args.pr} to {entry.name}"
FanoutPrTitle(pr, entry) ==
    <<"[DO NOT MERGE] [Fanout] [Monorepo] PR #">> \o IntToStr(pr) \o <<" to ">> \o entry.name

\* main: pr_body (the backquotes around the prefix are written as ')
FanoutPrBody(repo, pr, entry) ==
    <<"This is an automated PR for subtree '">> \o entry.category \o <<"/">> \o entry.name
        \o <<"' originating from monorepo PR [#">> \o IntToStr(pr)
        \o <<"](https://github.com/">> \o repo \o <<"/pull/">> \o IntToStr(pr)
        \o <<"). PLEASE DO NOT MERGE OR TOUCH THIS PR, AUTOMATED WORKFLOWS FROM THE MONOREPO ARE USING IT.">>

\* the open pull requests of a sub-repository whose head is the branch
\* (what gh pr list --repo repo --head head lists)
OpenPrs(prs, repo, head) ==
    {prs[k] : k \in {k \in 1..Len(prs) :
        prs[k].repo = repo /\ prs[k].head = head /\ prs[k].state = "open"}}

\* pr_list[0]["number"] if pr_list else None; <<>> stands for None
FirstNumber(prlist) ==
    IF prlist = {} THEN <<>>
    ELSE <<CHOOSE n \in {q.number : q \in prlist} : \A m \in {q.number : q \in prlist} : n <= m>>

\* GitHubCLIClient.pr_view: the open PR's number, None when there is none and
\* None when the gh command fails (the CalledProcessError is swallowed)
pr_view(prs, repo, head, gh_ok) ==
    IF gh_ok THEN FirstNumber(OpenPrs(prs, repo, head)) ELSE <<>>

FanoutActive(run) == run.pc \in {"push", "view", "create"}
FanoutEnded(run)  == run.pc \in {"done", "crashed"}

\* the for loop's next iteration, or the end of main
FanoutAdvance(run) ==
    IF run.i = Len(fo_subtrees)
    THEN [run EXCEPT !.pc = "done"]
    ELSE [run EXCEPT !.pc = "push", !.i = run.i + 1]

\* the two runs before they start. reads: the read calls the run has issued,
\* in order; remote_failure: a git or gh command of the run failed at the remote;
\* pushed: the subtrees (by position) whose branch the run's git subtree push wrote
FanoutRuns ==
    [Runs -> {[pc |-> "idle", i |-> 1, dry_run |-> d, pr_exists |-> <<>>,
               prsAtStart |-> <<>>, overlapped |-> FALSE,
               reads |-> <<>>, remote_failure |-> FALSE, pushed |-> {}] : d \in BOOLEAN}]

InitFanout ==
    /\ fo_pr \in {1, MaxPr}
    /\ fo_subtrees \in FanoutSubtreeLists
    /\ fo_run \in FanoutRuns
    /\ fo_branches = {}
    /\ fo_prs = <<>>
    /\ fo_calls = {}
    /\ RestIdle("fanout")

\* main, up to the for loop: the run begins; what the sub-repositories hold at
\* this moment and whether another run is under way are remembered
FanoutStart(r) ==
    /\ fo_run[r].pc = "idle"
    /\ fo_run' = [q \in Runs |->
          IF q = r
          THEN [fo_run[r] EXCEPT !.pc = "push", !.prsAtStart = fo_prs,
                                 !.overlapped = \E o \in Runs \ {r} : FanoutActive(fo_run[o])]
          ELSE IF FanoutActive(fo_run[q]) THEN [fo_run[q] EXCEPT !.overlapped = TRUE]
          ELSE fo_run[q]]
    /\ UNCHANGED <<fo_pr, fo_subtrees, fo_branches, fo_prs, fo_calls>>
    /\ UNCHANGED notFanout

\* subtree_push: nothing in a dry run. With bash on the PATH the argument list
\* ["ulimit", "-s", "65532", "&&", "git", ...] is run without a shell, so git is
\* never started: the call raises, or a ulimit executable exits 0. Without bash
\* git subtree push force-pushes the branch or fails; check=True raises on failure.
SubtreePush(r) ==
    LET run    == fo_run[r]
        entry  == fo_subtrees[run.i]
        branch == FanoutBranch(fo_pr, entry.name)
    IN  /\ run.pc = "push"
        /\ IF run.dry_run
           THEN /\ fo_run' = [fo_run EXCEPT ![r].pc = "view"]
                /\ UNCHANGED fo_branches
           ELSE \E bash_path \in BOOLEAN, cmd_ok \in BOOLEAN :
                /\ fo_run' = [fo_run EXCEPT ![r].pc = IF cmd_ok THEN "view" ELSE "crashed",
                                             ![r].remote_failure = @ \/ (~cmd_ok /\ ~bash_path),
                                             ![r].pushed = IF cmd_ok /\ ~bash_path
                                                           THEN @ \cup {run.i} ELSE @]
                /\ fo_branches' =
                      IF cmd_ok /\ ~bash_path
                      THEN {b \in fo_branches : ~(b.repo = entry.url /\ b.branch = branch)}
                              \cup {[repo |-> entry.url, branch |-> branch, by |-> r]}
                      ELSE fo_branches
        /\ UNCHANGED <<fo_pr, fo_subtrees, fo_prs, fo_calls>>
        /\ UNCHANGED notFanout

\* main: pr_exists = client.pr_view(entry.url, branch)
PrView(r) ==
    LET run    == fo_run[r]
        entry  == fo_subtrees[run.i]
        branch == FanoutBranch(fo_pr, entry.name)
    IN  /\ run.pc = "view"
        /\ \E gh_ok \in BOOLEAN :
              fo_run' = [fo_run EXCEPT ![r].pc = "create",
                                       ![r].pr_exists = pr_view(fo_prs, entry.url, branch, gh_ok),
                                       ![r].reads = Append(@, [call |-> "pr_view",
                                                               repo |-> entry.url,
                                                               head |-> branch]),
                                       ![r].remote_failure = @ \/ ~gh_ok]
        /\ UNCHANGED <<fo_pr, fo_subtrees, fo_branches, fo_prs, fo_calls>>
        /\ UNCHANGED notFanout

\* main: if not pr_exists: if not args.dry_run: client.pr_create(...).
\* gh pr create fails when the command fails, when the head branch is not in the
\* sub-repository or when an open PR for that head exists; _run_gh_command
\* then raises and the run ends.
PrCreate(r) ==
    LET run      == fo_run[r]
        entry    == fo_subtrees[run.i]
        branch   == FanoutBranch(fo_pr, entry.name)
        existing == OpenPrs(fo_prs, entry.url, branch)
    IN  /\ run.pc = "create"
        /\ IF run.pr_exists = <<>> /\ ~run.dry_run
           THEN \E gh_ok \in BOOLEAN :
                LET accepted == /\ gh_ok
                                /\ \E b \in fo_branches : b.repo = entry.url /\ b.branch = branch
                                /\ existing = {}
                IN  /\ fo_calls' = fo_calls \cup
                          {[run |-> r, repo |-> entry.url, head |-> branch,
                            openExisted |-> existing # {}]}
                    /\ fo_prs' =
                          IF accepted
                          THEN Append(fo_prs,
                                  [number |-> Len(fo_prs) + 1, repo |-> entry.url,
                                   head |-> branch, base |-> entry.branch,
                                   title |-> FanoutPrTitle(fo_pr, entry),
                                   body |-> FanoutPrBody(MonorepoRepo, fo_pr, entry),
                                   state |-> "open"])
                          ELSE fo_prs
                    /\ fo_run' = [fo_run EXCEPT ![r] =
                          IF accepted THEN FanoutAdvance(run)
                          ELSE [run EXCEPT !.pc = "crashed", !.remote_failure = TRUE]]
           ELSE /\ fo_run' = [fo_run EXCEPT ![r] = FanoutAdvance(run)]
                /\ UNCHANGED <<fo_prs, fo_calls>>
        /\ UNCHANGED <<fo_pr, fo_subtrees, fo_branches>>
        /\ UNCHANGED notFanout

NextFanout ==
    \E r \in Runs : FanoutStart(r) \/ SubtreePush(r) \/ PrView(r) \/ PrCreate(r)

SpecFanout == InitFanout /\ [][NextFanout]_vars

\* C4: a fanout run that starts when the mirrored PR of a subtree is already
\* open (a second run, not overlapping another) issues no PR-create call for
\* that branch and leaves exactly that one open PR, title and body unchanged.
C4_SecondRunCreatesNothing ==
    \A r \in Runs :
        (FanoutEnded(fo_run[r]) /\ ~fo_run[r].overlapped) =>
            \A i \in 1..Len(fo_subtrees) :
                LET entry  == fo_subtrees[i]
                    branch == FanoutBranch(fo_pr, entry.name)
                    before == OpenPrs(fo_run[r].prsAtStart, entry.url, branch)
                IN  before # {} =>
                        /\ ~\E c \in fo_calls :
                              c.run = r /\ c.repo = entry.url /\ c.head = branch
                        /\ Cardinality(before) = 1
                        /\ OpenPrs(fo_prs, entry.url, branch) = before

\* C5: in every reachable state, runs interleaved or not, every branch has at
\* most one open mirrored PR and no PR-create call was issued for a branch that
\* had an open PR when the call was issued.
C5_NoCreateForOpenPr ==
    /\ \A i \in 1..Len(fo_subtrees) :
          Cardinality(OpenPrs(fo_prs, fo_subtrees[i].url,
                              FanoutBranch(fo_pr, fo_subtrees[i].name))) <= 1
    /\ \A c \in fo_calls : ~c.openExisted

(***************************************************************************)
(* REST client (github_api_client.py)                                      *)
(*                                                                         *)
(* JSON as the client sees it: a list [kind "list", items], or an object   *)
(* [kind "dict", keys (in order), fields]. None inside a payload is JSON   *)
(* null. An optional object (a dict or None) is <<d>> or <<>>.             *)
(***************************************************************************)
JsonList(items)        == [kind |-> "list", items |-> items, keys |-> <<>>, fields |-> <<>>]
JsonDict(keys, fields) == [kind |-> "dict", items |-> <<>>, keys |-> keys, fields |-> fields]
EmptyDict              == JsonDict(<<>>, <<>>)                 \* {}

\* d.get(key, default) on the fields of an object
DictGet(fields, key, default) == IF key \in DOMAIN fields THEN fields[key] ELSE default

\* Python truthiness of a text value: None and "" are false
Falsy(x) == x = None \/ x = ""

\* an HTTP response: ok (2xx), the page number the Link header gives as
\* rel="last" (<<>> without such a header), and the JSON body
Response(ok, last, data) == [ok |-> ok, last |-> last, data |-> data]

\* _get_total_pages
_get_total_pages(response) ==
    IF response.last # <<>> THEN response.last[1] ELSE 1

\* all_results.extend(data): the items of a list, the keys of an object
Extend(all_results, data) ==
    all_results \o (IF data.kind = "list" THEN data.items ELSE data.keys)

\* _get_json, the pages after the first: a failed page ends the loop (break)
RECURSIVE DrainPages(_, _, _, _)
DrainPages(responses, page, total_pages, all_results) ==
    IF page > total_pages THEN all_results
    ELSE IF ~responses[page].ok THEN all_results
    ELSE DrainPages(responses, page + 1, total_pages,
                    Extend(all_results, responses[page].data))

\* _get_json: responses[k] is the server's answer to the request for page k.
\* {} when the first request fails, else the list all_results
_get_json(responses) ==
    IF ~responses[1].ok THEN EmptyDict
    ELSE JsonList(DrainPages(responses, 2, _get_total_pages(responses[1]),
                             Extend(<<>>, responses[1].data)))

\* data.get(...) on what _get_json returned: a list has no get (AttributeError)
Returned(value) == [exc |-> None, value |-> value]
Raised(exc)     == [exc |-> exc, value |-> <<>>]

\* Every request asks self.github_app_client.get_authenticated_headers() for
\* its headers. The GitHubAppClient of the repository defines
\* get_authenticated_headers_for_repo(repo) and no get_authenticated_headers:
\* with that class the call raises AttributeError; with the class the client
\* is written against (credentials are an external collaborator) it returns
\* the headers. Both outcomes are kept.
get_authenticated_headers == {Raised("AttributeError"), Returned(<<"headers">>)}

\* get_check_runs_for_ref: data = self._get_json(url, ...); return data.get("check_runs", [])
get_check_runs_for_ref(responses) ==
    LET data == _get_json(responses)
    IN  IF data.kind = "dict"
        THEN Returned(DictGet(data.fields, "check_runs", <<>>))
        ELSE Raised("AttributeError")

\* get_check_run_by_name, after the check runs are fetched: the first with the name
get_check_run_by_name(check_runs, name) ==
    LET hits == {i \in 1..Len(check_runs) : check_runs[i].name = name}
    IN  IF hits = {} THEN <<>>
        ELSE <<check_runs[CHOOSE i \in hits : \A j \in hits : i <= j]>>

\* _generate_check_run_payload
_generate_check_run_payload(name, head_sha, status, details_url, conclusion, completed_at, title, summary) ==
    [name         |-> name,
     head_sha     |-> head_sha,
     status       |-> status,
     details_url  |-> details_url,
     conclusion   |-> IF status = "completed" THEN conclusion ELSE "",
     completed_at |-> IF status = "completed" THEN completed_at ELSE "",
     output       |-> [title   |-> IF Falsy(title) THEN name ELSE title,
                       summary |-> IF Falsy(summary) THEN "" ELSE summary]]

\* the check runs GitHub holds for a commit
ChecksOn(checks, sha) == SelectSeq(checks, LAMBDA c : c.head_sha = sha)

\* GET /repos/{repo}/commits/{sha}/check-runs as GitHub answers it: an object
\* {"total_count": n, "check_runs": [...]}, in one page or two, or a failure
CheckRunsBody(check_runs) ==
    JsonDict(<<"total_count", "check_runs">>,
             [total_count |-> Len(check_runs), check_runs |-> check_runs])

CheckRunsResponses(check_runs) ==
    LET body == CheckRunsBody(check_runs)
    IN  { <<Response(FALSE, <<>>, EmptyDict)>>,
          <<Response(TRUE, <<>>, body)>>,
          <<Response(TRUE, <<2>>, body), Response(TRUE, <<2>>, body)>>,
          <<Response(TRUE, <<2>>, body), Response(FALSE, <<>>, EmptyDict)>> }

(***************************************************************************)
(* SpecUpsert: upsert_check_run called by two callers (two reflection runs *)
(* whose steps interleave), each with all nine arguments.                  *)
(***************************************************************************)
Callers == {1, 2}

UpsertArgs ==
    {[repo |-> "ROCm/rocm-libraries", name |-> n, sha |-> "sha1", status |-> st,
      details_url |-> "url", conclusion |-> IF st = "completed" THEN "success" ELSE "neutral",
      completed_at |-> "t1", title |-> None, summary |-> "s1"] :
        n \in {"a: build", "b: build"}, st \in {"in_progress", "completed"}}

\* a check run as GitHub stores it: the payload and the id GitHub gave it
StoredCheck(id, payload) ==
    [id |-> id, name |-> payload.name, head_sha |-> payload.head_sha,
     status |-> payload.status, details_url |-> payload.details_url,
     conclusion |-> payload.conclusion, completed_at |-> payload.completed_at,
     output |-> payload.output]

PayloadOf(a) ==
    _generate_check_run_payload(a.name, a.sha, a.status, a.details_url,
                                a.conclusion, a.completed_at, a.title, a.summary)

InitUpsert ==
    /\ up_checks \in {<<>>} \cup {<<StoredCheck(1, PayloadOf(a))>> : a \in UpsertArgs}
    /\ up_call \in [Callers -> {[pc |-> "lookup", args |-> a, existing |-> <<>>,
                                 written |-> "none"] : a \in UpsertArgs}]
    /\ RestIdle("upsert")

\* upsert_check_run: existing = self.get_check_run_by_name(repo, sha, name)
UpsertLookup(c) ==
    LET call == up_call[c]
    IN  /\ call.pc = "lookup"
        /\ \E headers \in get_authenticated_headers,
              responses \in CheckRunsResponses(ChecksOn(up_checks, call.args.sha)) :
              LET check_runs == get_check_runs_for_ref(responses)
              IN  up_call' = [up_call EXCEPT ![c] =
                      IF headers.exc # None \/ check_runs.exc # None
                      THEN [call EXCEPT !.pc = "raised"]
                      ELSE [call EXCEPT !.pc = "write",
                               !.existing = get_check_run_by_name(check_runs.value,
                                                                  call.args.name)]]
        /\ UNCHANGED up_checks
        /\ UNCHANGED notUpsert

\* upsert_check_run: PATCH the existing check run, or POST a new one;
\* _request_json logs a failed request and returns {}
UpsertWrite(c) ==
    LET call    == up_call[c]
        payload == PayloadOf(call.args)
    IN  /\ call.pc = "write"
        /\ \E headers \in get_authenticated_headers, response_ok \in BOOLEAN :
              IF headers.exc # None
              THEN /\ up_call' = [up_call EXCEPT ![c].pc = "raised"]
                   /\ UNCHANGED up_checks
              ELSE IF call.existing # <<>>
              THEN /\ up_checks' =
                        IF response_ok
                        THEN [k \in 1..Len(up_checks) |->
                                 IF up_checks[k].id = call.existing[1].id
                                 THEN StoredCheck(up_checks[k].id, payload)
                                 ELSE up_checks[k]]
                        ELSE up_checks
                   /\ up_call' = [up_call EXCEPT ![c].pc = "done",
                                     ![c].written = IF response_ok THEN "PATCH" ELSE "failed"]
              ELSE /\ up_checks' =
                        IF response_ok
                        THEN Append(up_checks, StoredCheck(Len(up_checks) + 1, payload))
                        ELSE up_checks
                   /\ up_call' = [up_call EXCEPT ![c].pc = "done",
                                     ![c].written = IF response_ok THEN "POST" ELSE "failed"]
        /\ UNCHANGED notUpsert

NextUpsert == \E c \in Callers : UpsertLookup(c) \/ UpsertWrite(c)

SpecUpsert == InitUpsert /\ [][NextUpsert]_vars

\* C7: in every reachable state, the callers interleaved or not, at most one
\* check run with a given name exists per commit: upsert_check_run never
\* creates a second one.
C7_OneCheckRunPerNameAndSha ==
    \A i, j \in 1..Len(up_checks) :
        (up_checks[i].name = up_checks[j].name /\ up_checks[i].head_sha = up_checks[j].head_sha)
            => i = j

(***************************************************************************)
(* SpecReflect: one run of pr_reflect_checks.main                          *)
(***************************************************************************)
\* d.get(key) on the fields of an object: the value, or None
OptGet(fields, key) == IF key \in DOMAIN fields THEN <<fields[key]>> ELSE <<>>

\* a check run as the check-runs endpoint returns it: every key is present,
\* conclusion is null until the check run is completed
GitHubCheck(id, name, head_sha, status, conclusion, summary) ==
    [id |-> id, name |-> name, head_sha |-> head_sha, status |-> status,
     conclusion |-> IF status = "completed" THEN conclusion ELSE None,
     details_url |-> "url", completed_at |-> IF status = "completed" THEN "t1" ELSE None,
     output |-> [title |-> name, summary |-> summary]]

CheckStates == {[status |-> "in_progress", conclusion |-> None],
                [status |-> "completed", conclusion |-> "success"],
                [status |-> "completed", conclusion |-> "failure"]}
Summaries   == {"s1", "s2"}
CheckName   == <<"t">>

UpstreamChecks ==
    {GitHubCheck(1, CheckName, "sha2", st.status, st.conclusion, sm) :
        st \in CheckStates, sm \in Summaries}

\* the synthetic name of an upstream check: f"{entry.name}: {check['name']}"
SyntheticName(entry, check) == entry.name \o <<":", " ">> \o check.name

ReflectPr == 1
ReflectConfigs ==
    {<<RepoEntry(<<"a">>, <<"a">>)>>,
     <<RepoEntry(<<"a">>, <<"a">>), RepoEntry(<<"b">>, <<"b">>)>>}

\* the mirrored pull request of an entry: none (head <<>>), or one open on
\* the branch pr_fanout pushes or on the branch FanoutNaming computes
Mirrors(entry) ==
    {[head |-> <<>>, checks |-> <<>>]} \cup
    {[head |-> h, checks |-> cs] :
        h \in {FanoutBranch(ReflectPr, entry.name), compute_branch_name(ReflectPr, entry.name)},
        cs \in {<<>>} \cup {<<c>> : c \in UpstreamChecks}}

\* GET /repos/{repo}/pulls/{pr} as GitHub answers it: the pull request object
PrBody(monorepo) ==
    JsonDict(<<"number", "head">>,
             [number |-> monorepo.pr, head |-> [ref |-> monorepo.ref, sha |-> monorepo.sha]])

PrResponses(monorepo) ==
    { <<Response(FALSE, <<>>, EmptyDict)>>, <<Response(TRUE, <<>>, PrBody(monorepo))>> }

\* get_branch_name_for_pr: data.get("head", {}).get("ref")
get_branch_name_for_pr(responses) ==
    LET data == _get_json(responses)
    IN  IF data.kind = "dict"
        THEN Returned(OptGet(DictGet(data.fields, "head", <<>>), "ref"))
        ELSE Raised("AttributeError")

\* the check runs of a ref: GitHub has none to list for a ref it does not know
RefCheckRunsResponses(ref, known_ref, check_runs) ==
    IF ref = <<known_ref>> THEN CheckRunsResponses(check_runs)
    ELSE { <<Response(FALSE, <<>>, EmptyDict)>> }

\* GET /repos/{repo}/pulls?head=...&state=open: a list of pull requests
PullsResponses(mirror, branch) ==
    LET prs == IF mirror.head = branch
               THEN <<[number |-> 7, state |-> "open", head |-> [ref |-> branch]]>>
               ELSE <<>>
    IN  { <<Response(FALSE, <<>>, EmptyDict)>>, <<Response(TRUE, <<>>, JsonList(prs))>> }

\* get_pr_by_head_branch: return data[0] if data else None
get_pr_by_head_branch(responses) ==
    LET data == _get_json(responses)
    IN  IF data.kind = "dict" THEN <<>>
        ELSE IF data.items = <<>> THEN <<>> ELSE <<data.items[1]>>

\* {check["name"]: check for check in ...}: a later check of a name replaces an earlier
DictByName(checks) ==
    [n \in {checks[k].name : k \in 1..Len(checks)} |->
        checks[CHOOSE k \in 1..Len(checks) :
                  /\ checks[k].name = n
                  /\ \A m \in 1..Len(checks) : checks[m].name = n => m <= k]]

\* the parameters of GitHubAPIClient.upsert_check_run after self
upsert_check_run_params ==
    <<"repo", "name", "sha", "status", "details_url", "conclusion",
      "completed_at", "title", "summary">>

\* a call with positional arguments: a parameter without default left
\* unbound is a TypeError
BindArguments(params, args) ==
    IF Len(args) # Len(params) THEN Raised("TypeError")
    ELSE Returned([k \in 1..Len(params) |-> <<params[k], args[k]>>])

\* main, for check in checks: the upsert calls issued, and the exception
\* that ended the loop if one did
RECURSIVE ReflectLoop(_, _, _, _, _, _)
ReflectLoop(checks, k, entry, monorepo_checks, args, calls) ==
    IF k > Len(checks) THEN [exc |-> None, calls |-> calls]
    ELSE
      LET check          == checks[k]
          synthetic_name == SyntheticName(entry, check)
          status         == check.status
          conclusion     == DictGet(check, "conclusion", "neutral")
          details_url    == DictGet(check, "details_url", "")
          summary        == DictGet(DictGet(check, "output", <<>>), "summary", "")
          existing       == OptGet(monorepo_checks, synthetic_name)
          needs_update   ==
              \/ existing = <<>>
              \/ existing[1].status # status
              \/ DictGet(existing[1], "conclusion", None) # conclusion
              \/ DictGet(DictGet(existing[1], "output", <<>>), "summary", None) # summary
          bound          ==
              BindArguments(upsert_check_run_params,
                            <<args.repo, synthetic_name, args.pr, status,
                              details_url, conclusion, summary>>)
      IN  IF ~needs_update \/ args.dry_run
          THEN ReflectLoop(checks, k + 1, entry, monorepo_checks, args, calls)
          ELSE IF bound.exc # None
          THEN [exc   |-> bound.exc,
                calls |-> Append(calls, [name |-> synthetic_name, completed |-> FALSE])]
          ELSE ReflectLoop(checks, k + 1, entry, monorepo_checks, args,
                           Append(calls, [name |-> synthetic_name, completed |-> TRUE]))

InitReflect ==
    /\ rf_config \in ReflectConfigs
    /\ rf_mirrors \in UNION {[1..n -> UNION {Mirrors(e) : e \in Entries}] : n \in 1..2}
    /\ Len(rf_mirrors) = Len(rf_config)
    /\ \A i \in 1..Len(rf_config) : rf_mirrors[i] \in Mirrors(rf_config[i])
    /\ rf_monorepo \in
          {[repo |-> MonorepoRepo, pr |-> ReflectPr, ref |-> <<"f">>, sha |-> "sha1", checks |-> cs] :
              cs \in {<<>>} \cup
                     {<<GitHubCheck(1, SyntheticName(rf_config[1], c), "sha1",
                                    c.status, c.conclusion, c.output.summary)>> :
                          c \in UpstreamChecks}}
    /\ rf_run \in {[pc |-> "branch", i |-> 1, dry_run |-> d, monorepo_branch |-> <<>>,
                    monorepo_checks |-> <<>>, calls |-> <<>>, exc |-> None] : d \in BOOLEAN}
    /\ RestIdle("reflect")

ReflectRaise(run, exc) == [run EXCEPT !.pc = "raised", !.exc = exc]

ReflectNextEntry(run) ==
    IF run.i < Len(rf_config)
    THEN [run EXCEPT !.pc = "pr", !.i = @ + 1]
    ELSE [run EXCEPT !.pc = "done"]

\* main: monorepo_branch = client.get_branch_name_for_pr(args.repo, args.pr)
ReflectGetBranch ==
    /\ rf_run.pc = "branch"
    /\ \E headers \in get_authenticated_headers, responses \in PrResponses(rf_monorepo) :
          LET branch == get_branch_name_for_pr(responses)
          IN  rf_run' =
                IF headers.exc # None THEN ReflectRaise(rf_run, headers.exc)
                ELSE IF branch.exc # None THEN ReflectRaise(rf_run, branch.exc)
                ELSE [rf_run EXCEPT !.pc = "monorepo_checks", !.monorepo_branch = branch.value]
    /\ UNCHANGED <<rf_config, rf_mirrors, rf_monorepo>>
    /\ UNCHANGED notReflect

\* main: monorepo_checks = {check["name"]: check for check in
\*       client.get_check_runs_for_ref(args.repo, monorepo_branch)}
ReflectGetMonorepoChecks ==
    /\ rf_run.pc = "monorepo_checks"
    /\ \E headers \in get_authenticated_headers,
          responses \in RefCheckRunsResponses(rf_run.monorepo_branch, rf_monorepo.ref,
                                              rf_monorepo.checks) :
          LET check_runs == get_check_runs_for_ref(responses)
          IN  rf_run' =
                IF headers.exc # None THEN ReflectRaise(rf_run, headers.exc)
                ELSE IF check_runs.exc # None THEN ReflectRaise(rf_run, check_runs.exc)
                ELSE [rf_run EXCEPT !.pc = "pr", !.i = 1,
                                    !.monorepo_checks = DictByName(check_runs.value)]
    /\ UNCHANGED <<rf_config, rf_mirrors, rf_monorepo>>
    /\ UNCHANGED notReflect

\* main, for entry in config: pr = client.get_pr_by_head_branch(subrepo, branch);
\* without an open PR the entry is skipped
ReflectGetPr ==
    /\ rf_run.pc = "pr"
    /\ LET entry  == rf_config[rf_run.i]
           branch == ReflectBranch(rf_monorepo.pr, entry.name)
       IN  \E headers \in get_authenticated_headers,
              responses \in PullsResponses(rf_mirrors[rf_run.i], branch) :
              rf_run' =
                IF headers.exc # None THEN ReflectRaise(rf_run, headers.exc)
                ELSE IF get_pr_by_head_branch(responses) = <<>> THEN ReflectNextEntry(rf_run)
                ELSE [rf_run EXCEPT !.pc = "checks"]
    /\ UNCHANGED <<rf_config, rf_mirrors, rf_monorepo>>
    /\ UNCHANGED notReflect

\* main: checks = client.get_check_runs_for_ref(subrepo, branch), and the
\* loop over the checks
ReflectChecks ==
    /\ rf_run.pc = "checks"
    /\ LET entry  == rf_config[rf_run.i]
           branch == ReflectBranch(rf_monorepo.pr, entry.name)
           args   == [repo |-> rf_monorepo.repo, pr |-> rf_monorepo.pr,
                      dry_run |-> rf_run.dry_run]
       IN  \E headers \in get_authenticated_headers,
              responses \in RefCheckRunsResponses(<<branch>>, rf_mirrors[rf_run.i].head,
                                                  rf_mirrors[rf_run.i].checks) :
              LET checks == get_check_runs_for_ref(responses)
                  loop   == ReflectLoop(checks.value, 1, entry, rf_run.monorepo_checks,
                                        args, rf_run.calls)
              IN  rf_run' =
                    IF headers.exc # None THEN ReflectRaise(rf_run, headers.exc)
                    ELSE IF checks.exc # None THEN ReflectRaise(rf_run, checks.exc)
                    ELSE IF loop.exc # None
                    THEN ReflectRaise([rf_run EXCEPT !.calls = loop.calls], loop.exc)
                    ELSE ReflectNextEntry([rf_run EXCEPT !.calls = loop.calls])
    /\ UNCHANGED <<rf_config, rf_mirrors, rf_monorepo>>
    /\ UNCHANGED notReflect

NextReflect ==
    \/ ReflectGetBranch
    \/ ReflectGetMonorepoChecks
    \/ ReflectGetPr
    \/ ReflectChecks

SpecReflect == InitReflect /\ [][NextReflect]_vars

ReflectEnded == rf_run.pc \in {"done", "raised"}

\* the synthetic checks of a name on the monorepo pull request
SyntheticChecks(name) ==
    {j \in 1..Len(rf_monorepo.checks) : rf_monorepo.checks[j].name = name}

IdenticalChecks(existing, check) ==
    /\ existing.status = check.status
    /\ existing.conclusion = check.conclusion
    /\ existing.output.summary = check.output.summary

UpsertCallsFor(name) == {k \in 1..Len(rf_run.calls) : rf_run.calls[k].name = name}

\* C6: when a run that writes (no --dry-run) has ended, for every check of
\* every mirrored pull request: if the monorepo pull request has a synthetic
\* check of its name with the same status, conclusion and summary, no upsert
\* call was issued for it; otherwise (a field differs, or there is no
\* synthetic check) exactly one upsert call was issued for it and completed.
C6_UpsertExactlyWhenChanged ==
    (ReflectEnded /\ ~rf_run.dry_run) =>
        \A i \in 1..Len(rf_config) : \A k \in 1..Len(rf_mirrors[i].checks) :
            LET check == rf_mirrors[i].checks[k]
                name  == SyntheticName(rf_config[i], check)
            IN  IF /\ SyntheticChecks(name) # {}
                   /\ \A j \in SyntheticChecks(name) :
                         IdenticalChecks(rf_monorepo.checks[j], check)
                THEN UpsertCallsFor(name) = {}
                ELSE /\ Cardinality(UpsertCallsFor(name)) = 1
                     /\ \A c \in UpsertCallsFor(name) : rf_run.calls[c].completed

(***************************************************************************)
(* SpecLabels: one run of pr_fanout_sync_labels.sync_labels over the gh    *)
(* client (GitHubCLIClient.sync_labels)                                    *)
(***************************************************************************)
\* label names: "b" (bug), "e" (enhancement), "p 1" with a space, and
\* "b,e" with a comma
LabelNames == {<<"b">>, <<"e">>, <<"p", " ", "1">>, <<"b", ",", "e">>}

LabelsPr == 1
LabelConfigs ==
    {<<RepoEntry(<<"a">>, <<"a">>)>>,
     <<RepoEntry(<<"a">>, <<"a">>), RepoEntry(<<"b">>, <<"b">>)>>}

\* the orders in which a set can be iterated
Orderings(S) == {f \in [1..Cardinality(S) -> S] : Range(f) = S}

\* f'"{label}"' if " " in label else label
QuoteIfSpace(label) ==
    IF Contains(label, " ") THEN <<"\"">> \o label \o <<"\"">> ELSE label

\* GitHubCLIClient.sync_labels: labels_arg, the labels taken in the order the
\* set labels_to_apply is iterated
labels_arg(order) == Join(",", [k \in 1..Len(order) |-> QuoteIfSpace(order[k])])

\* GitHubCLIClient.sync_labels: cmd
sync_labels_cmd_remove(pr_number, target_repo, arg) ==
    [gh |-> <<"pr", "edit">>, pr |-> pr_number, repo |-> target_repo,
     flag |-> "--remove-label", value |-> arg]

sync_labels_cmd(pr_number, target_repo, arg) ==
    [gh |-> <<"pr", "edit">>, pr |-> pr_number, repo |-> target_repo,
     flag |-> "--add-label", value |-> arg]

\* gh reads the value of --add-label as one line of comma-separated values:
\* a field that opens with a double quote runs to the closing quote
RECURSIVE CsvRead(_, _, _, _)
CsvRead(val, i, field, quoted) ==
    IF i > Len(val) THEN <<field>>
    ELSE IF quoted
    THEN IF val[i] = "\"" THEN CsvRead(val, i + 1, field, FALSE)
         ELSE CsvRead(val, i + 1, Append(field, val[i]), TRUE)
    ELSE IF val[i] = "," THEN <<field>> \o CsvRead(val, i + 1, <<>>, FALSE)
    ELSE IF val[i] = "\"" /\ field = <<>> THEN CsvRead(val, i + 1, field, TRUE)
    ELSE CsvRead(val, i + 1, Append(field, val[i]), FALSE)

readAsCSV(val) == IF val = <<>> THEN <<>> ELSE CsvRead(val, 1, <<>>, FALSE)

\* the label names gh pr edit is given by a command
NamesGiven(cmd) == Range(readAsCSV(cmd.value))

\* gh pr edit: a name that is not a label of the repository fails the
\* command; otherwise the names are added to (--add-label) or removed from
\* (--remove-label) the labels of the pull request
GhPrEditAccepts(mirror, cmd) == NamesGiven(cmd) \subseteq mirror.vocabulary

GhPrEdit(mirror, cmd) ==
    [mirror EXCEPT !.labels = IF cmd.flag = "--add-label"
                              THEN @ \cup NamesGiven(cmd)
                              ELSE @ \ NamesGiven(cmd)]

\* a sub-repository: its label vocabulary, and its mirrored pull request
\* (none, or open on the branch pr_fanout pushed) with its labels
MirroredPr(entry) ==
    [number |-> 7, repo |-> entry.url, state |-> "open",
     head |-> FanoutBranch(LabelsPr, entry.name)]

LabelMirrors(entry) ==
    {[prs |-> <<>>, vocabulary |-> v, labels |-> {}] : v \in SUBSET LabelNames} \cup
    UNION {{[prs |-> <<MirroredPr(entry)>>, vocabulary |-> v, labels |-> l] :
               l \in SUBSET v} : v \in SUBSET LabelNames}

\* the sub-repositories of a configuration: the first with any vocabulary and
\* labels; a second one defines every label, and its mirrored pull request,
\* if there is one, has no label yet
LabelMirrorLists(config) ==
    IF Len(config) = 1
    THEN {<<m>> : m \in LabelMirrors(config[1])}
    ELSE {<<m, [prs |-> prs, vocabulary |-> LabelNames, labels |-> {}]>> :
             m \in LabelMirrors(config[1]), prs \in {<<>>, <<MirroredPr(config[2])>>}}

InitLabels ==
    /\ lb_source \in SUBSET LabelNames
    /\ \E config \in LabelConfigs :
          /\ lb_mirrors \in LabelMirrorLists(config)
          /\ lb_run \in {[pc |-> "start", i |-> 1, dry_run |-> d, entries |-> config,
                          source_labels |-> {}, existing_pr |-> <<>>,
                          defined_labels |-> {}] : d \in BOOLEAN}
    /\ lb_start = [i \in 1..Len(lb_mirrors) |-> lb_mirrors[i].labels]
    /\ lb_cmds = <<>>
    /\ RestIdle("labels")

LabelsNextEntry(run) ==
    IF run.i < Len(run.entries)
    THEN [run EXCEPT !.pc = "pr_view", !.i = @ + 1]
    ELSE [run EXCEPT !.pc = "done"]

\* sync_labels: source_labels = client.get_existing_labels_on_pr(monorepo, pr_number);
\* a failed gh command raises CalledProcessError
LabelsGetSource ==
    /\ lb_run.pc = "start"
    /\ \E gh_ok \in BOOLEAN :
          lb_run' = IF gh_ok
                    THEN [lb_run EXCEPT !.pc = "pr_view", !.source_labels = lb_source]
                    ELSE [lb_run EXCEPT !.pc = "raised"]
    /\ UNCHANGED <<lb_source, lb_mirrors, lb_start, lb_cmds>>
    /\ UNCHANGED notLabels

\* sync_labels, for entry in entries: existing_pr = client.pr_view(entry.url, branch);
\* without one the entry is skipped
LabelsPrView ==
    /\ lb_run.pc = "pr_view"
    /\ LET entry  == lb_run.entries[lb_run.i]
           branch == SyncLabelsBranch(LabelsPr, entry.name)
       IN  \E gh_ok \in BOOLEAN :
              LET existing_pr == pr_view(lb_mirrors[lb_run.i].prs, entry.url, branch, gh_ok)
              IN  lb_run' = IF existing_pr = <<>>
                            THEN LabelsNextEntry(lb_run)
                            ELSE [lb_run EXCEPT !.pc = "defined", !.existing_pr = existing_pr]
    /\ UNCHANGED <<lb_source, lb_mirrors, lb_start, lb_cmds>>
    /\ UNCHANGED notLabels

\* sync_labels: defined_labels = client.get_defined_labels(entry.url)
LabelsGetDefined ==
    /\ lb_run.pc = "defined"
    /\ \E gh_ok \in BOOLEAN :
          lb_run' = IF gh_ok
                    THEN [lb_run EXCEPT !.pc = "sync",
                                        !.defined_labels = lb_mirrors[lb_run.i].vocabulary]
                    ELSE [lb_run EXCEPT !.pc = "raised"]
    /\ UNCHANGED <<lb_source, lb_mirrors, lb_start, lb_cmds>>
    /\ UNCHANGED notLabels

\* sync_labels: applicable_labels, and client.sync_labels(entry.url,
\* existing_pr, applicable_labels, dry_run): the label list is read again,
\* intersected, and gh pr edit --add-label is run unless dry_run
LabelsSync ==
    /\ lb_run.pc = "sync"
    /\ LET entry             == lb_run.entries[lb_run.i]
           mirror            == lb_mirrors[lb_run.i]
           applicable_labels == {label \in lb_run.source_labels :
                                    label \in lb_run.defined_labels}
           labels_to_apply   == applicable_labels \cap mirror.vocabulary
       IN  \E list_ok \in BOOLEAN, edit_ok \in BOOLEAN,
              order \in Orderings(labels_to_apply) :
              LET cmd == sync_labels_cmd(lb_run.existing_pr[1], entry.url, labels_arg(order))
              IN  IF ~list_ok
                  THEN /\ lb_run' = [lb_run EXCEPT !.pc = "raised"]
                       /\ UNCHANGED <<lb_mirrors, lb_cmds>>
                  ELSE IF lb_run.dry_run
                  THEN /\ lb_run' = LabelsNextEntry(lb_run)
                       /\ UNCHANGED <<lb_mirrors, lb_cmds>>
                  ELSE /\ lb_cmds' = Append(lb_cmds, [i |-> lb_run.i, cmd |-> cmd])
                       /\ IF edit_ok /\ GhPrEditAccepts(mirror, cmd)
                          THEN /\ lb_mirrors' = [lb_mirrors EXCEPT ![lb_run.i] = GhPrEdit(@, cmd)]
                               /\ lb_run' = LabelsNextEntry(lb_run)
                          ELSE /\ lb_run' = [lb_run EXCEPT !.pc = "raised"]
                               /\ UNCHANGED lb_mirrors
    /\ UNCHANGED <<lb_source, lb_start>>
    /\ UNCHANGED notLabels

NextLabels ==
    \/ LabelsGetSource
    \/ LabelsPrView
    \/ LabelsGetDefined
    \/ LabelsSync

SpecLabels == InitLabels /\ [][NextLabels]_vars

\* C8: in every reachable state the labels of every mirrored pull request
\* include the labels it had when the run started: label sync removes none.
C8_SyncNeverRemovesLabels ==
    \A i \in 1..Len(lb_mirrors) : lb_start[i] \subseteq lb_mirrors[i].labels

\* the run of the example has ended: the mirror started with {b, p 1}, the
\* source is {e}, e is in the vocabulary, and the mirror now has {b, p 1, e}
C8_Witness ==
    /\ lb_run.pc = "done"
    /\ lb_source = {<<"e">>}
    /\ lb_start[1] = {<<"b">>, <<"p", " ", "1">>}
    /\ lb_mirrors[1].labels = {<<"b">>, <<"p", " ", "1">>, <<"e">>}
    /\ Len(lb_cmds) = 1

\* C9: every gh pr edit command the run issued for a mirrored pull request
\* gives gh exactly the names in the intersection of the monorepo pull
\* request's labels and the sub-repository's vocabulary, each name unchanged,
\* and no command was issued for an empty intersection.
C9_SendsExactlyTheIntersection ==
    \A k \in 1..Len(lb_cmds) :
        LET intersection == lb_source \cap lb_mirrors[lb_cmds[k].i].vocabulary
        IN  /\ intersection # {}
            /\ NamesGiven(lb_cmds[k].cmd) = intersection

(***************************************************************************)
(* SpecCategory: one run of pr_category_label.main                         *)
(***************************************************************************)
ProjectsDir   == <<"p", "r", "o", "j", "e", "c", "t", "s">>          \* "projects"
SharedDir     == <<"s", "h", "a", "r", "e", "d">>                    \* "shared"
DocsDir       == <<"d", "o", "c", "s">>                              \* "docs"
ProjectPrefix == <<"p", "r", "o", "j", "e", "c", "t", ":", " ">>     \* "project: "
SharedPrefix  == <<"s", "h", "a", "r", "e", "d", ":", " ">>          \* "shared: "

\* label.startswith(prefix)
StartsWith(label, prefix) ==
    Len(label) >= Len(prefix) /\ SubSeq(label, 1, Len(prefix)) = prefix

\* Path(path).parts: the segments between "/", without the empty ones and
\* the "." ones, after the root "/" of an absolute path
PathParts(path) ==
    (IF path # <<>> /\ path[1] = "/" THEN << <<"/">> >> ELSE <<>>) \o
    SelectSeq(Split(path, "/"), LAMBDA seg : seg # <<>> /\ seg # <<".">>)

\* sorted(S) for a set of strings
RECURSIVE Sorted(_)
Sorted(S) ==
    IF S = {} THEN <<>>
    ELSE LET x == CHOOSE x \in S : \A y \in S : StrLeq(x, y)
         IN  <<x>> \o Sorted(S \ {x})

\* compute_desired_labels
compute_desired_labels(file_paths) ==
    UNION {LET parts == PathParts(file_paths[k])
           IN  IF Len(parts) >= 2
               THEN IF parts[1] = ProjectsDir THEN {ProjectPrefix \o parts[2]}
                    ELSE IF parts[1] = SharedDir THEN {SharedPrefix \o parts[2]}
                    ELSE {}
               ELSE {} : k \in 1..Len(file_paths)}

\* output_labels: existing_auto_labels
existing_auto_labels_all(existing_labels) == existing_labels

existing_auto_labels(existing_labels) ==
    {label \in existing_labels :
        StartsWith(label, ProjectPrefix) \/ StartsWith(label, SharedPrefix)}

\* output_labels: to_add and to_remove
to_add(existing_labels, desired_labels) == Sorted(desired_labels \ existing_labels)

to_remove(existing_labels, desired_labels) ==
    Sorted(existing_auto_labels(existing_labels) \ desired_labels)

\* output_labels: the lines printed to GITHUB_OUTPUT
OutputLines(add, remove) ==
    << <<"a", "d", "d", "=">> \o Join(",", add),
       <<"r", "e", "m", "o", "v", "e", "=">> \o Join(",", remove) >>

\* changed files: a first-level directory, a subtree x or n, and a file f in
\* it or not; a top-level file; a first-level directory alone
CategoryPaths ==
    {Join("/", <<d, n>>) : d \in {ProjectsDir, SharedDir, DocsDir}, n \in {<<"x">>, <<"n">>}}
    \cup {Join("/", <<d, n, <<"f">> >>) :
             d \in {ProjectsDir, SharedDir, DocsDir}, n \in {<<"x">>, <<"n">>}}
    \cup {<<"f">>, ProjectsDir}

CategoryFileLists ==
    {<<>>} \cup {<<p>> : p \in CategoryPaths}
           \cup {<<p, q>> : p \in CategoryPaths, q \in CategoryPaths}

\* labels a pull request can have: project: x, project: n, project: o,
\* shared: x, bug, and project:x without the space
CategoryLabels ==
    {ProjectPrefix \o <<"x">>, ProjectPrefix \o <<"n">>, ProjectPrefix \o <<"o">>,
     SharedPrefix \o <<"x">>, <<"b", "u", "g">>,
     <<"p", "r", "o", "j", "e", "c", "t", ":", "x">>}

InitCategory ==
    /\ ct_files \in CategoryFileLists
    /\ ct_existing \in SUBSET CategoryLabels
    /\ ct_run \in {[pc |-> "files", dry_run |-> d, github_output |-> g,
                    changed_files |-> <<>>, existing_labels |-> {},
                    desired_labels |-> {}, to_add |-> <<>>, to_remove |-> <<>>] :
                      d \in BOOLEAN, g \in BOOLEAN}
    /\ ct_output = <<>>
    /\ RestIdle("category")

\* main: changed_files = client.get_changed_files(args.repo, int(args.pr));
\* a failed gh command raises CalledProcessError
CategoryGetFiles ==
    /\ ct_run.pc = "files"
    /\ \E gh_ok \in BOOLEAN :
          ct_run' = IF gh_ok
                    THEN [ct_run EXCEPT !.pc = "labels", !.changed_files = ct_files]
                    ELSE [ct_run EXCEPT !.pc = "raised"]
    /\ UNCHANGED <<ct_files, ct_existing, ct_output>>
    /\ UNCHANGED notCategory

\* main: existing_labels = client.get_existing_labels_on_pr(args.repo, int(args.pr))
CategoryGetLabels ==
    /\ ct_run.pc = "labels"
    /\ \E gh_ok \in BOOLEAN :
          ct_run' = IF gh_ok
                    THEN [ct_run EXCEPT !.pc = "output", !.existing_labels = ct_existing]
                    ELSE [ct_run EXCEPT !.pc = "raised"]
    /\ UNCHANGED <<ct_files, ct_existing, ct_output>>
    /\ UNCHANGED notCategory

\* main: desired_labels = compute_desired_labels(changed_files), and
\* output_labels(existing_labels, desired_labels, args.dry_run): nothing is
\* written in a dry run, and without GITHUB_OUTPUT the script exits with 1
CategoryOutput ==
    /\ ct_run.pc = "output"
    /\ LET desired_labels == compute_desired_labels(ct_run.changed_files)
           add            == to_add(ct_run.existing_labels, desired_labels)
           remove         == to_remove(ct_run.existing_labels, desired_labels)
           computed       == [ct_run EXCEPT !.desired_labels = desired_labels,
                                            !.to_add = add, !.to_remove = remove]
       IN  IF ct_run.dry_run
           THEN /\ ct_run' = [computed EXCEPT !.pc = "done"]
                /\ UNCHANGED ct_output
           ELSE IF ct_run.github_output
           THEN /\ ct_run' = [computed EXCEPT !.pc = "done"]
                /\ ct_output' = ct_output \o OutputLines(add, remove)
           ELSE /\ ct_run' = [computed EXCEPT !.pc = "exit 1"]
                /\ UNCHANGED ct_output
    /\ UNCHANGED <<ct_files, ct_existing>>
    /\ UNCHANGED notCategory

NextCategory ==
    \/ CategoryGetFiles
    \/ CategoryGetLabels
    \/ CategoryOutput

SpecCategory == InitCategory /\ [][NextCategory]_vars

\* a label with an automation prefix
AutoPrefixed(label) == StartsWith(label, ProjectPrefix) \/ StartsWith(label, SharedPrefix)

\* C10: once output_labels has computed the diff for the existing labels E
\* and the desired labels D: add is D minus E, remove is the automation-
\* prefixed labels of E minus D, add and remove are disjoint, every label in
\* remove has an automation prefix, and E with add added and remove removed
\* has exactly D as its automation-prefixed labels.
C10_CategoryLabelDiff ==
    ct_run.pc \in {"done", "exit 1"} =>
        LET E      == ct_existing
            D      == ct_run.desired_labels
            add    == Range(ct_run.to_add)
            remove == Range(ct_run.to_remove)
        IN  /\ add = D \ E
            /\ remove = {l \in E : AutoPrefixed(l)} \ D
            /\ add \cap remove = {}
            /\ \A l \in remove : AutoPrefixed(l)
            /\ {l \in (E \cup add) \ remove : AutoPrefixed(l)} = D
            /\ Len(ct_run.to_add) = Cardinality(add)
            /\ Len(ct_run.to_remove) = Cardinality(remove)

\* the example: E = {project: x, project: o} and D = {project: x, project: n}
\* give add = {project: n} and remove = {project: o}, written to GITHUB_OUTPUT
C10_Witness ==
    /\ ct_run.pc = "done"
    /\ ct_existing = {ProjectPrefix \o <<"x">>, ProjectPrefix \o <<"o">>}
    /\ ct_run.desired_labels = {ProjectPrefix \o <<"x">>, ProjectPrefix \o <<"n">>}
    /\ ct_run.to_add = <<ProjectPrefix \o <<"n">> >>
    /\ ct_run.to_remove = <<ProjectPrefix \o <<"o">> >>
    /\ Len(ct_output) = 2

(***************************************************************************)
(* SpecDetect: one run of pr_detect_changed_subtrees.main                  *)
(***************************************************************************)
\* output_subtrees: what is appended to the GITHUB_OUTPUT file and the exit
\* code the function ends the process with (<<>> when it returns).
\* github_output: os.environ.get('GITHUB_OUTPUT') names a file
output_subtrees_nodry(matched_subtrees, dry_run, github_output) ==
    [written |-> << <<"subtrees<<EOF", "\n">> \o Join("\n", matched_subtrees)
                        \o <<"\n", "EOF">> >>,
     exit    |-> <<>>]

output_subtrees_noexit(matched_subtrees, dry_run, github_output) ==
    [written |-> <<>>, exit |-> <<>>]

output_subtrees(matched_subtrees, dry_run, github_output) ==
    LET newline_separated == Join("\n", matched_subtrees)
    IN  IF dry_run THEN [written |-> <<>>, exit |-> <<>>]
        ELSE IF github_output
        THEN [written |-> << <<"subtrees<<EOF", "\n">> \o newline_separated
                                \o <<"\n", "EOF">> >>,
              exit    |-> <<>>]
        ELSE [written |-> <<>>, exit |-> <<1>>]

\* the changed files of the pull request: up to two of the category/name
\* paths and the top-level file
DetectFileLists ==
    LET paths == SecondPaths \cup TopLevelFiles
    IN  {<<>>} \cup {<<p>> : p \in paths} \cup {<<p, q>> : p \in paths, q \in paths}

InitDetect ==
    /\ dt_files \in DetectFileLists
    /\ dt_config \in Configs
    /\ dt_run \in {[pc |-> "files", dry_run |-> d, github_output |-> g,
                    changed_files |-> <<>>, matched_subtrees |-> <<>>, exit |-> <<>>] :
                      d \in BOOLEAN, g \in BOOLEAN}
    /\ dt_output = <<>>
    /\ RestIdle("detect")

\* main: changed_files = client.get_changed_files(args.repo, int(args.pr));
\* a failed gh command raises CalledProcessError
DetectGetFiles ==
    /\ dt_run.pc = "files"
    /\ \E gh_ok \in BOOLEAN :
          dt_run' = IF gh_ok
                    THEN [dt_run EXCEPT !.pc = "output", !.changed_files = dt_files]
                    ELSE [dt_run EXCEPT !.pc = "raised", !.exit = <<1>>]
    /\ UNCHANGED <<dt_files, dt_config, dt_output>>
    /\ UNCHANGED notDetect

\* main: valid_prefixes, matched_subtrees, output_subtrees(matched_subtrees, args.dry_run)
DetectOutput ==
    /\ dt_run.pc = "output"
    /\ LET valid_prefixes   == get_valid_prefixes(dt_config)
           matched_subtrees == find_matched_subtrees(dt_run.changed_files, valid_prefixes)
           out              == output_subtrees(matched_subtrees, dt_run.dry_run,
                                               dt_run.github_output)
       IN  /\ dt_run' = [dt_run EXCEPT !.pc = IF out.exit = <<>> THEN "done" ELSE "exit",
                                       !.matched_subtrees = matched_subtrees,
                                       !.exit = out.exit]
           /\ dt_output' = dt_output \o out.written
    /\ UNCHANGED <<dt_files, dt_config>>
    /\ UNCHANGED notDetect

NextDetect ==
    \/ DetectGetFiles
    \/ DetectOutput

SpecDetect == InitDetect /\ [][NextDetect]_vars

(***************************************************************************)
(* SpecScripts: one invocation of any script that takes --dry-run and      *)
(* writes: the fanout driver (two runs), the check reflector, the label    *)
(* sync (one sub-repository), the category-label script (at most one       *)
(* changed file) or the subtree-detection script                           *)
(***************************************************************************)
InitScripts ==
    \/ InitFanout
    \/ InitReflect
    \/ InitLabels /\ Len(lb_mirrors) = 1
    \/ InitCategory /\ Len(ct_files) <= 1
    \/ InitDetect

NextScripts ==
    \/ fo_run # <<>> /\ NextFanout
    \/ rf_run # <<>> /\ NextReflect
    \/ lb_run # <<>> /\ NextLabels
    \/ ct_run # <<>> /\ NextCategory
    \/ dt_run # <<>> /\ NextDetect

SpecScripts == InitScripts /\ [][NextScripts]_vars

\* C11: in every reachable state, a script run with --dry-run has made no
\* mutating call: a dry fanout run has pushed no branch and issued no PR
\* create, a dry reflector run has issued no upsert, a dry label sync has run
\* no gh pr edit and the labels of the mirrors are as at the start, and the
\* dry category-label and subtree-detection runs have written nothing to
\* GITHUB_OUTPUT.
C11_DryRunNeverWrites ==
    /\ fo_run # <<>> =>
          \A r \in Runs : fo_run[r].dry_run =>
              /\ ~\E c \in fo_calls : c.run = r
              /\ ~\E b \in fo_branches : b.by = r
    /\ (rf_run # <<>> /\ rf_run.dry_run) => rf_run.calls = <<>>
    /\ (lb_run # <<>> /\ lb_run.dry_run) =>
          /\ lb_cmds = <<>>
          /\ \A i \in 1..Len(lb_mirrors) : lb_mirrors[i].labels = lb_start[i]
    /\ (ct_run # <<>> /\ ct_run.dry_run) => ct_output = <<>>
    /\ (dt_run # <<>> /\ dt_run.dry_run) => dt_output = <<>>

\* a dry subtree-detection run has ended with a matched subtree and an
\* output file to write to, and has written nothing
C11_Witness ==
    /\ dt_run # <<>>
    /\ dt_run.dry_run /\ dt_run.github_output
    /\ dt_run.pc = "done"
    /\ dt_run.matched_subtrees # <<>>
    /\ dt_output = <<>>

CloseRepos(entry) ==
    LET derived  == CloseBranch(ReflectPr, entry.name)
        numbered == IntToStr(7)
    IN  {[pr |-> "none", branches |-> {}],
         [pr |-> "none", branches |-> {derived}],
         [pr |-> "open", branches |-> {derived}],
         [pr |-> "open", branches |-> {derived, numbered}]}

CloseRepoLists(config) ==
    IF Len(config) = 1
    THEN {<<m>> : m \in CloseRepos(config[1])}
    ELSE {<<m, n>> : m \in CloseRepos(config[1]), n \in CloseRepos(config[2])}

InitClose ==
    /\ cl_config \in ReflectConfigs
    /\ cl_repos \in CloseRepoLists(cl_config)
    /\ cl_run \in {[pc |-> "pr", i |-> 1, dry_run |-> d, number |-> <<>>,
                    exc |-> None, remote_failure |-> FALSE] : d \in BOOLEAN}
    /\ cl_calls = <<>>
    /\ RestIdle("close")

CloseRaise(run, exc) == [run EXCEPT !.pc = "raised", !.exc = exc]

CloseNextEntry(run) ==
    IF run.i < Len(cl_config)
    THEN [run EXCEPT !.pc = "pr", !.i = @ + 1, !.number = <<>>]
    ELSE [run EXCEPT !.pc = "done", !.number = <<>>]

\* main: branch = f"monorepo-pr-{args.pr}-{entry.name}";
\* pr = client.get_pr_by_head_branch(entry.url, branch); if pr: number = pr["number"]
CloseGetPr ==
    /\ cl_run.pc = "pr"
    /\ LET entry  == cl_config[cl_run.i]
           branch == CloseBranch(ReflectPr, entry.name)
           mirror == [head |-> IF cl_repos[cl_run.i].pr = "open" THEN branch ELSE <<>>]
       IN  \E headers \in get_authenticated_headers,
              responses \in PullsResponses(mirror, branch) :
              LET pr  == get_pr_by_head_branch(responses)
                  run == [cl_run EXCEPT !.remote_failure = @ \/ ~responses[1].ok]
              IN  cl_run' =
                    IF headers.exc # None THEN CloseRaise(cl_run, headers.exc)
                    ELSE IF pr = <<>> THEN CloseNextEntry(run)
                    ELSE [run EXCEPT !.pc = "patch", !.number = <<pr[1].number>>]
    /\ UNCHANGED <<cl_config, cl_repos, cl_calls>>
    /\ UNCHANGED notClose

\* close_pr_and_delete_branch, the first request: PATCH /repos/{repo}/pulls/{pr_number}
\* with {"state": "closed"}; _request_json logs a failed request and returns {}
ClosePatch ==
    /\ cl_run.pc = "patch"
    /\ \E headers \in get_authenticated_headers, ok \in BOOLEAN :
          IF headers.exc # None
          THEN /\ cl_run' = CloseRaise(cl_run, headers.exc)
               /\ UNCHANGED <<cl_repos, cl_calls>>
          ELSE /\ cl_run' = [cl_run EXCEPT !.pc = "delete",
                                           !.remote_failure = @ \/ ~ok]
               /\ cl_repos' = IF ok THEN [cl_repos EXCEPT ![cl_run.i].pr = "closed"]
                              ELSE cl_repos
               /\ cl_calls' = Append(cl_calls,
                                  [method |-> "PATCH", i |-> cl_run.i,
                                   target |-> <<"pulls/">> \o IntToStr(cl_run.number[1]),
                                   ok |-> ok])
    /\ UNCHANGED cl_config
    /\ UNCHANGED notClose

\* close_pr_and_delete_branch, the second request:
\* DELETE /repos/{repo}/git/refs/heads/{pr_number}. GitHub answers 422 when
\* the repository has no branch of that name and 204 with an empty body when
\* it deleted one; response.json() on the empty body raises JSONDecodeError
CloseDelete ==
    /\ cl_run.pc = "delete"
    /\ LET ref == IntToStr(cl_run.number[1])
           known == ref \in cl_repos[cl_run.i].branches
       IN  \E headers \in get_authenticated_headers, service_ok \in BOOLEAN :
              IF headers.exc # None
              THEN /\ cl_run' = CloseRaise(cl_run, headers.exc)
                   /\ UNCHANGED <<cl_repos, cl_calls>>
              ELSE /\ cl_run' =
                        IF service_ok /\ known
                        THEN CloseRaise(cl_run, "JSONDecodeError")
                        ELSE CloseNextEntry([cl_run EXCEPT !.remote_failure = @ \/ ~service_ok])
                   /\ cl_repos' =
                        IF service_ok /\ known
                        THEN [cl_repos EXCEPT ![cl_run.i].branches = @ \ {ref}]
                        ELSE cl_repos
                   /\ cl_calls' = Append(cl_calls,
                                      [method |-> "DELETE", i |-> cl_run.i,
                                       target |-> <<"git/refs/heads/">> \o ref,
                                       ok |-> service_ok /\ known])
    /\ UNCHANGED cl_config
    /\ UNCHANGED notClose

NextClose ==
    \/ CloseGetPr
    \/ ClosePatch
    \/ CloseDelete

SpecClose == InitClose /\ [][NextClose]_vars

\* C12: in every reachable state of a run of pr_close_fanouts with --dry-run,
\* no PATCH or DELETE request was issued, every mirrored pull request that was
\* open is still open and has its branches.
C12_DryRunClosesNothing ==
    cl_run.dry_run =>
        /\ cl_calls = <<>>
        /\ \A i \in 1..Len(cl_repos) : cl_repos[i] \in CloseRepos(cl_config[i])

\* C16: when a run without --dry-run has completed and no request met a
\* remote failure, every sub-repository that had an open mirrored pull
\* request has it closed and no longer has the derived head branch
\* monorepo-pr-<pr>-<name>.
C16_ClosedAndBranchDeleted ==
    (cl_run.pc = "done" /\ ~cl_run.dry_run /\ ~cl_run.remote_failure) =>
        \A i \in 1..Len(cl_repos) :
            cl_repos[i].pr # "none" =>
                /\ cl_repos[i].pr = "closed"
                /\ CloseBranch(ReflectPr, cl_config[i].name) \notin cl_repos[i].branches

\* C13: a fanout run that a failed push or a failed PR create has ended is at
\* the last of its subtrees: a failure for one subtree never leaves a later
\* subtree unprocessed.
C13_FailureDoesNotAbortRemaining ==
    \A r \in Runs :
        fo_run[r].pc = "crashed" => fo_run[r].i = Len(fo_subtrees)

(***************************************************************************)
(* SpecConfig: the start of every script that loads the configuration file *)
(* (client construction, load_repo_config, the first remote call of main)  *)
(***************************************************************************)
ConfigScripts ==
    {"pr_fanout", "pr_detect_changed_subtrees", "pr_reflect_checks",
     "pr_fanout_sync_labels", "pr_close_fanouts"}

ConfigFields == {"category", "name", "url", "branch"}

\* an entry of "repositories" as the file gives it: per field a string, a
\* number, or no such key
ConfigEntries == [ConfigFields -> {"str", "number", "missing"}]
ValidEntry    == [f \in ConfigFields |-> "str"]

\* the file at config_path: absent; not JSON; JSON whose top level is a list,
\* an object without "repositories" or with a "repositories" that is not a
\* list; or an object with a list of entries
ConfigFile(exists, json, top, repositories) ==
    [exists |-> exists, json |-> json, top |-> top, repositories |-> repositories]

ConfigFiles ==
    {ConfigFile(FALSE, FALSE, "", <<>>), ConfigFile(TRUE, FALSE, "", <<>>)}
    \cup {ConfigFile(TRUE, TRUE, t, <<>>) :
            t \in {"list", "object without repositories", "repositories not a list"}}
    \cup {ConfigFile(TRUE, TRUE, "object", es) :
            es \in {<<>>} \cup {<<e>> : e \in ConfigEntries}
                          \cup {<<ValidEntry, e>> : e \in ConfigEntries}}

\* RepoConfig(**data): the schema of the configuration file, an object whose
\* "repositories" is a list of entries with the four string fields
RepoConfigValidates(file) ==
    /\ file.top = "object"
    /\ \A k \in 1..Len(file.repositories) :
          \A f \in ConfigFields : file.repositories[k][f] = "str"

\* load_repo_config: open (FileNotFoundError), json.load (JSONDecodeError),
\* RepoConfig(**data) (TypeError for a list, ValidationError); every
\* exception is logged and answered with sys.exit(1)
load_repo_config_lenient(file) ==
    [exit |-> <<>>, repositories |-> file.repositories]

load_repo_config(file) ==
    IF ~file.exists \/ ~file.json \/ file.top = "list" \/ ~RepoConfigValidates(file)
    THEN [exit |-> <<1>>, repositories |-> <<>>]
    ELSE [exit |-> <<>>, repositories |-> file.repositories]

InitConfig ==
    /\ cf_script \in ConfigScripts
    /\ cf_file \in ConfigFiles
    /\ cf_run \in {[pc |-> "client", dry_run |-> d, config |-> <<>>,
                    remote |-> <<>>, exit |-> <<>>] : d \in BOOLEAN}
    /\ RestIdle("config")

\* main: client = GitHubCLIClient() (runs gh --version) or GitHubAPIClient()
\* (reads APP_ID and APP_PRIVATE_KEY, signs a JWT); either raises when its
\* environment is missing, which ends the process with exit code 1
ConfigClient ==
    /\ cf_run.pc = "client"
    /\ \E ok \in BOOLEAN :
          cf_run' = IF ok THEN [cf_run EXCEPT !.pc = "load"]
                    ELSE [cf_run EXCEPT !.pc = "raised", !.exit = <<1>>]
    /\ UNCHANGED <<cf_script, cf_file>>
    /\ UNCHANGED notConfig

\* main: config = load_repo_config(args.config)
ConfigLoad ==
    /\ cf_run.pc = "load"
    /\ LET loaded == load_repo_config(cf_file)
       IN  cf_run' = IF loaded.exit # <<>>
                     THEN [cf_run EXCEPT !.pc = "exit", !.exit = loaded.exit]
                     ELSE [cf_run EXCEPT !.pc = "body", !.config = loaded.repositories]
    /\ UNCHANGED <<cf_script, cf_file>>
    /\ UNCHANGED notConfig

\* the first call main makes after the configuration is loaded that reaches
\* a remote: pr_fanout pushes (or, dry, views) for the first relevant
\* subtree, pr_close_fanouts looks up the first entry's pull request, the
\* other three start with a read of the monorepo pull request
FirstRemoteCall(script, dry_run) ==
    CASE script = "pr_fanout" -> IF dry_run THEN "pr_view" ELSE "subtree_push"
      [] script = "pr_detect_changed_subtrees" -> "get_changed_files"
      [] script = "pr_reflect_checks" -> "get_branch_name_for_pr"
      [] script = "pr_fanout_sync_labels" -> "get_existing_labels_on_pr"
      [] script = "pr_close_fanouts" -> "get_pr_by_head_branch"

ConfigBody ==
    /\ cf_run.pc = "body"
    /\ \E relevant \in BOOLEAN :
          LET loops == cf_script \in {"pr_fanout", "pr_close_fanouts"}
              empty == \/ cf_run.config = <<>>
                       \/ cf_script = "pr_fanout" /\ ~relevant
          IN  cf_run' = IF loops /\ empty
                        THEN [cf_run EXCEPT !.pc = "done"]
                        ELSE [cf_run EXCEPT !.pc = "remote",
                                !.remote = <<FirstRemoteCall(cf_script, cf_run.dry_run)>>]
    /\ UNCHANGED <<cf_script, cf_file>>
    /\ UNCHANGED notConfig

NextConfig ==
    \/ ConfigClient
    \/ ConfigLoad
    \/ ConfigBody

SpecConfig == InitConfig /\ [][NextConfig]_vars

\* the file is absent, is not JSON, or does not fit the schema
BadConfig(file) == ~file.exists \/ ~file.json \/ ~RepoConfigValidates(file)

\* C14: with a configuration file that is missing, malformed or against the
\* schema, in every reachable state of every script no remote call has been
\* made, and once the script is past load_repo_config it has exited with
\* code 1.
C14_BadConfigExitsBeforeRemote ==
    BadConfig(cf_file) =>
        /\ cf_run.remote = <<>>
        /\ cf_run.pc \in {"client", "load"} \/ cf_run.exit = <<1>>

\* the file holds a valid entry and one without a name; the client was
\* built and the script exited with code 1 in load_repo_config
C14_Witness ==
    /\ cf_file.top = "object" /\ Len(cf_file.repositories) = 2
    /\ cf_file.repositories[2]["name"] = "missing"
    /\ cf_run.pc = "exit"
    /\ cf_run.exit = <<1>>
    /\ cf_run.remote = <<>>

(***************************************************************************)
(* SpecFanoutUpdate: the fanout driver started when the first subtree's    *)
(* mirrored pull request is already open, its title and body as pr_fanout  *)
(* wrote them or changed since                                             *)
(***************************************************************************)
EditedText == <<"edited">>

InitFanoutUpdate ==
    /\ fo_pr \in {1, MaxPr}
    /\ fo_subtrees \in FanoutSubtreeLists
    /\ fo_run \in FanoutRuns
    /\ LET entry  == fo_subtrees[1]
           branch == FanoutBranch(fo_pr, entry.name)
       IN  /\ fo_branches = {[repo |-> entry.url, branch |-> branch, by |-> 0]}
           /\ \E title \in {FanoutPrTitle(fo_pr, entry), EditedText},
                 body \in {FanoutPrBody(MonorepoRepo, fo_pr, entry), EditedText} :
                 fo_prs = <<[number |-> 1, repo |-> entry.url, head |-> branch,
                             base |-> entry.branch, title |-> title, body |-> body,
                             state |-> "open"]>>
    /\ fo_calls = {}
    /\ RestIdle("fanout")

SpecFanoutUpdate == InitFanoutUpdate /\ [][NextFanout]_vars

\* C17: when a live fanout run that did not overlap another has completed,
\* every mirrored pull request that was open for a subtree's branch when the
\* run started has the derived title and the derived body.
C17_ExistingPrUpdatedInPlace ==
    \A r \in Runs :
        (fo_run[r].pc = "done" /\ ~fo_run[r].dry_run /\ ~fo_run[r].overlapped) =>
            \A i \in 1..Len(fo_subtrees) :
                LET entry  == fo_subtrees[i]
                    branch == FanoutBranch(fo_pr, entry.name)
                IN  \A q \in OpenPrs(fo_run[r].prsAtStart, entry.url, branch) :
                        \E n \in OpenPrs(fo_prs, entry.url, branch) :
                            /\ n.number = q.number
                            /\ n.title = FanoutPrTitle(fo_pr, entry)
                            /\ n.body = FanoutPrBody(MonorepoRepo, fo_pr, entry)

\* C20: a dry fanout run and a live fanout run that did not overlap another
\* run, met no failure at the remote and started from the same pull requests
\* have issued the same sequence of read calls once both have ended.
C20_DryRunSameReads ==
    \A d \in Runs, l \in Runs :
        (/\ fo_run[d].dry_run /\ ~fo_run[l].dry_run
         /\ FanoutEnded(fo_run[d]) /\ FanoutEnded(fo_run[l])
         /\ ~fo_run[d].overlapped /\ ~fo_run[l].overlapped
         /\ ~fo_run[d].remote_failure /\ ~fo_run[l].remote_failure
         /\ fo_run[d].prsAtStart = fo_run[l].prsAtStart)
        => fo_run[d].reads = fo_run[l].reads

(***************************************************************************)
(* SpecReflectLoop: one pass of the body of "for check in checks" in       *)
(* pr_reflect_checks.main, for one upstream check run and the synthetic    *)
(* check read from the monorepo pull request                               *)
(***************************************************************************)
LoopEntry == RepoEntry(<<"a">>, <<"a">>)

\* the check run without its "conclusion" key
WithoutConclusion(check) == [k \in DOMAIN check \ {"conclusion"} |-> check[k]]

\* the upstream check runs: completed with a conclusion; or queued or in
\* progress, the conclusion null (as GitHub lists it) or the key absent
LoopChecks ==
    {GitHubCheck(1, CheckName, "sha2", "completed", c, s) :
        c \in {"success", "failure"}, s \in Summaries}
    \cup {GitHubCheck(1, CheckName, "sha2", st, None, s) :
            st \in {"queued", "in_progress"}, s \in Summaries}
    \cup {WithoutConclusion(GitHubCheck(1, CheckName, "sha2", st, None, s)) :
            st \in {"queued", "in_progress"}, s \in Summaries}

\* monorepo_checks.get(synthetic_name): None, or the synthetic check
LoopExisting ==
    {<<>>} \cup
    {<<GitHubCheck(2, SyntheticName(LoopEntry, [name |-> CheckName]), "sha1",
                   st.status, st.conclusion, s)>> : st \in CheckStates, s \in Summaries}

InitReflectLoop ==
    /\ rl_check \in LoopChecks
    /\ rl_existing \in LoopExisting
    /\ rl_result \in {[pc |-> "check", dry_run |-> d, conclusion |-> "", needs_update |-> FALSE,
                       upsert |-> <<>>] : d \in BOOLEAN}
    /\ RestIdle("loop")

\* conclusion = check.get("conclusion", "neutral")
ReflectConclusion(check) == DictGet(check, "conclusion", "neutral")

\* needs_update = not existing or existing["status"] != status or
\* existing.get("conclusion") != conclusion or
\* existing.get("output", {}).get("summary") != summary
ReflectNeedsUpdate(existing, status, conclusion, summary) ==
    \/ existing = <<>>
    \/ existing[1].status # status
    \/ DictGet(existing[1], "conclusion", None) # conclusion
    \/ DictGet(DictGet(existing[1], "output", <<>>), "summary", None) # summary

\* the loop body: the values compared, and the arguments of the
\* client.upsert_check_run call when one is made
ReflectCheck ==
    /\ rl_result.pc = "check"
    /\ LET status       == rl_check.status
           conclusion   == ReflectConclusion(rl_check)
           details_url  == DictGet(rl_check, "details_url", "")
           summary      == DictGet(DictGet(rl_check, "output", <<>>), "summary", "")
           needs_update == ReflectNeedsUpdate(rl_existing, status, conclusion, summary)
       IN  rl_result' = [rl_result EXCEPT
                            !.pc = "checked",
                            !.conclusion = conclusion,
                            !.needs_update = needs_update,
                            !.upsert = IF needs_update /\ ~rl_result.dry_run
                                       THEN <<[status |-> status, details_url |-> details_url,
                                               conclusion |-> conclusion, summary |-> summary]>>
                                       ELSE <<>>]
    /\ UNCHANGED <<rl_check, rl_existing>>
    /\ UNCHANGED notLoop

NextReflectLoop == ReflectCheck

SpecReflectLoop == InitReflectLoop /\ [][NextReflectLoop]_vars

\* C18: once the loop body has handled an upstream check run that is not
\* completed, the conclusion it compared is 'neutral', and so is the
\* conclusion argument of the upsert call if it made one.
C18_InProgressConclusionNeutral ==
    (rl_result.pc = "checked" /\ rl_check.status # "completed") =>
        /\ rl_result.conclusion = "neutral"
        /\ rl_result.upsert # <<>> => rl_result.upsert[1].conclusion = "neutral"

\* C19: once the reflector has read the existing synthetic checks, the
\* reference it read them on names the head commit of the monorepo pull
\* request (the head sha, or the head branch whose tip it is), the commit the
\* upserts write to.
C19_ChecksReadOnHeadCommit ==
    rf_run.pc \in {"pr", "checks", "done"} =>
        /\ Len(rf_run.monorepo_branch) = 1
        /\ rf_run.monorepo_branch[1] = rf_monorepo.ref

(***************************************************************************)
(* SpecPages: _get_json on a list endpoint of one to MaxPages pages, each  *)
(* page request answered or failed                                         *)
(***************************************************************************)
MaxPages == 3

PageItems == {"i1", "i2"}

\* the pages of the endpoint, one item a page
PageLists == UNION {[1..n -> {<<x>> : x \in PageItems}] : n \in 1..MaxPages}

\* the server's answer to the request for page k: a failure, or the page
\* with a Link header whose rel="last" names the last page (GitHub sends no
\* Link header when there is a single page)
PageResponse(pages, k, ok) ==
    IF ok THEN Response(TRUE, IF Len(pages) > 1 THEN <<Len(pages)>> ELSE <<>>,
                        JsonList(pages[k]))
    ELSE Response(FALSE, <<>>, EmptyDict)

\* all_results once every page is drained
RECURSIVE AllPages(_, _)
AllPages(pages, k) ==
    IF k > Len(pages) THEN <<>> ELSE pages[k] \o AllPages(pages, k + 1)

InitPages ==
    /\ pg_items \in PageLists
    /\ pg_responses \in UNION {{[k \in 1..Len(pg_items) |-> PageResponse(pg_items, k, oks[k])]} :
                                  oks \in [1..Len(pg_items) -> BOOLEAN]}
    /\ pg_result = <<>>
    /\ RestIdle("pages")

\* data = self._get_json(url, error_msg)
PagesGetJson ==
    /\ pg_result = <<>>
    /\ pg_result' = <<_get_json(pg_responses)>>
    /\ UNCHANGED <<pg_responses, pg_items>>
    /\ UNCHANGED notPages

NextPages == PagesGetJson

SpecPages == InitPages /\ [][NextPages]_vars

\* C21: what _get_json hands its caller is the failure value {} or the
\* items of all pages in order; it is never a list that lacks the items of
\* a page whose request failed.
C21_AllPagesOrFailure ==
    pg_result # <<>> =>
        \/ pg_result[1] = EmptyDict
        \/ /\ pg_result[1].kind = "list"
           /\ pg_result[1].items = AllPages(pg_items, 1)

\* C22: every PR-create call a fanout run has issued is for a subtree whose
\* branch that run has pushed before.
C22_CreateOnlyAfterPush ==
    \A c \in fo_calls :
        \E i \in fo_run[c.run].pushed :
            /\ fo_subtrees[i].url = c.repo
            /\ FanoutBranch(fo_pr, fo_subtrees[i].name) = c.head

\* C23: the list find_matched_subtrees returns is in strictly increasing
\* lexicographic order: sorted, and no name twice.
C23_MatchedStrictlyIncreasing ==
    mt_pc = "matched" =>
        \A k \in 1..(Len(mt_matched) - 1) : StrLess(mt_matched[k], mt_matched[k + 1])

(***************************************************************************)
(* SpecPipe: the subtree list pr_detect_changed_subtrees emits, given as   *)
(* --subtrees to pr_fanout                                                 *)
(***************************************************************************)
Whitespace == {" ", "\n", "\t", "\r"}

\* s.strip()
RECURSIVE Strip(_)
Strip(s) ==
    IF s = <<>> THEN s
    ELSE IF s[1] \in Whitespace THEN Strip(Tail(s))
    ELSE IF s[Len(s)] \in Whitespace THEN Strip(SubSeq(s, 1, Len(s) - 1))
    ELSE s

\* [line.strip() for line in text.splitlines() if line.strip()]
StrippedLines(text) ==
    LET lines    == IF text = <<>> THEN <<>> ELSE Split(text, "\n")
        stripped == [k \in 1..Len(lines) |-> Strip(lines[k])]
    IN  SelectSeq(stripped, LAMBDA line : line # <<>>)

\* get_subtree_info: the entries whose f"{entry.category}/{entry.name}" is requested
get_subtree_info(config, subtrees) ==
    LET requested == Range(subtrees)
    IN  SelectSeq(config, LAMBDA entry :
            (entry.category \o <<"/">> \o entry.name) \in requested)

InitPipe ==
    /\ pp_files \in DetectFileLists
    /\ pp_config \in Configs
    /\ pp_run = [pc |-> "detect", matched_subtrees |-> <<>>, subtrees |-> <<>>,
                 relevant_subtrees |-> <<>>]
    /\ RestIdle("pipe")

\* pr_detect_changed_subtrees.main: the matched subtrees, written to
\* GITHUB_OUTPUT as the newline-separated value of 'subtrees'
PipeDetect ==
    /\ pp_run.pc = "detect"
    /\ LET matched_subtrees == find_matched_subtrees(pp_files, get_valid_prefixes(pp_config))
       IN  pp_run' = [pp_run EXCEPT !.pc = "fanout",
                                    !.matched_subtrees = matched_subtrees,
                                    !.subtrees = Join("\n", matched_subtrees)]
    /\ UNCHANGED <<pp_files, pp_config>>
    /\ UNCHANGED notPipe

\* pr_fanout.main: subtrees from args.subtrees, relevant_subtrees = get_subtree_info(config, subtrees)
PipeFanout ==
    /\ pp_run.pc = "fanout"
    /\ LET subtrees == StrippedLines(pp_run.subtrees)
       IN  pp_run' = [pp_run EXCEPT !.pc = "selected",
                                    !.relevant_subtrees = get_subtree_info(pp_config, subtrees)]
    /\ UNCHANGED <<pp_files, pp_config>>
    /\ UNCHANGED notPipe

NextPipe ==
    \/ PipeDetect
    \/ PipeFanout

SpecPipe == InitPipe /\ [][NextPipe]_vars

\* the configured entries whose category/name prefix a changed file touches
TouchedEntries(files, config) ==
    {e \in Range(config) :
        \E i \in 1..Len(files) :
            LET segments == Split(files[i], "/")
            IN  /\ Len(segments) >= 2
                /\ segments[1] = e.category
                /\ segments[2] = e.name}

\* C24: when pr_fanout has selected its entries from the list the detection
\* emitted, they are exactly the configured entries whose category/name
\* prefix is touched by a changed file.
C24_DetectedSubtreesAreFannedOut ==
    pp_run.pc = "selected" =>
        Range(pp_run.relevant_subtrees) = TouchedEntries(pp_files, pp_config)

(***************************************************************************)
(* SpecReflectCycles: the reflector run again and again (one polling cycle *)
(* after another) on one upstream check run that does not change           *)
(***************************************************************************)
MaxCycles == 2

\* the upstream check runs of SpecReflectLoop, and completed ones whose
\* output has no summary (null)
CycleChecks ==
    LoopChecks \cup {GitHubCheck(1, CheckName, "sha2", "completed", c, None) :
                        c \in {"success", "failure"}}

InitReflectCycles ==
    /\ rl_check \in CycleChecks
    /\ rl_existing \in LoopExisting
    /\ rl_result \in {[pc |-> "check", dry_run |-> d, conclusion |-> "", needs_update |-> FALSE,
                       upsert |-> <<>>, cycle |-> 1, issued |-> <<>>, exc |-> None] :
                          d \in BOOLEAN}
    /\ RestIdle("loop")

\* main: client.upsert_check_run(args.repo, synthetic_name, args.pr, status,
\* details_url, conclusion, summary). The seven positional arguments leave
\* the parameters title and summary of upsert_check_run unbound: the call
\* raises TypeError before the method body runs, main ends, and the
\* synthetic checks of the monorepo pull request are as they were
ReflectUpsert ==
    /\ rl_result.pc = "checked"
    /\ LET synthetic_name == SyntheticName(LoopEntry, rl_check)
           bound == IF rl_result.upsert = <<>> THEN Returned(<<>>)
                    ELSE BindArguments(upsert_check_run_params,
                            <<MonorepoRepo, synthetic_name, ReflectPr,
                              rl_result.upsert[1].status, rl_result.upsert[1].details_url,
                              rl_result.upsert[1].conclusion, rl_result.upsert[1].summary>>)
       IN  rl_result' = [rl_result EXCEPT
                            !.pc = "cycle_end",
                            !.issued = Append(@, rl_result.upsert # <<>>),
                            !.exc = bound.exc]
    /\ UNCHANGED <<rl_check, rl_existing>>
    /\ UNCHANGED notLoop

\* the next polling cycle: the script is started again; it reads the upstream
\* check run and the synthetic check anew
ReflectNextCycle ==
    /\ rl_result.pc = "cycle_end"
    /\ rl_result.cycle < MaxCycles
    /\ rl_result' = [rl_result EXCEPT !.pc = "check", !.cycle = @ + 1, !.exc = None]
    /\ UNCHANGED <<rl_check, rl_existing>>
    /\ UNCHANGED notLoop

NextReflectCycles ==
    \/ ReflectCheck
    \/ ReflectUpsert
    \/ ReflectNextCycle

SpecReflectCycles == InitReflectCycles /\ [][NextReflectCycles]_vars

\* C25: with the upstream check run unchanged, a live cycle that follows a
\* cycle which issued an upsert for the check issues none.
C25_ReflectionReachesFixpoint ==
    \A k \in 1..(Len(rl_result.issued) - 1) :
        rl_result.issued[k] => ~rl_result.issued[k + 1]

(***************************************************************************)
(* SpecSynthetic: the synthetic check name the reflector composes, for two *)
(* (configured entry, upstream check name) pairs                           *)
(***************************************************************************)
UpstreamCheckNames == {<<"t">>, <<"u">>}

SyntheticPairs == {[entry |-> e, check |-> [name |-> n]] : e \in Entries, n \in UpstreamCheckNames}

InitSynthetic ==
    /\ sy_pairs \in {<<p, q>> : p \in SyntheticPairs, q \in SyntheticPairs}
    /\ sy_names = <<>>
    /\ RestIdle("synth")

\* main: synthetic_name = f"{entry.name}: {check['name']}", for both pairs
ComposeSyntheticNames ==
    /\ sy_names = <<>>
    /\ sy_names' = [k \in 1..2 |-> SyntheticName(sy_pairs[k].entry, sy_pairs[k].check)]
    /\ UNCHANGED sy_pairs
    /\ UNCHANGED notSynth

NextSynthetic == ComposeSyntheticNames

SpecSynthetic == InitSynthetic /\ [][NextSynthetic]_vars

\* C26: two pairs that differ in the entry's (category, name) or in the
\* upstream check name get different synthetic names.
C26_SyntheticNamesCollisionFree ==
    (/\ sy_names # <<>>
     /\ \/ sy_pairs[1].entry.category # sy_pairs[2].entry.category
        \/ sy_pairs[1].entry.name # sy_pairs[2].entry.name
        \/ sy_pairs[1].check.name # sy_pairs[2].check.name)
    => sy_names[1] # sy_names[2]

====
